---- MODULE Spec2Model ----
(***************************************************************************)
(* Record projection of the NetSuite developer tool:                       *)
(* RecordDataService.getFullRecordData(recordType, recordId, options).     *)
(*                                                                         *)
(* One invocation runs against a host (N/record, N/runtime) whose answers  *)
(* are chosen when the code asks for them and are remembered in `host`.    *)
(* The nominal host answers every call, gives every field and cell a text  *)
(* that differs from its value, full metadata, two lines per sublist and   *)
(* two columns per line, and the nominal caller passes a record type, a    *)
(* record id and no allow-list. A run departs from the nominal run in at   *)
(* most MaxDeviations ways: an empty argument, an allow-list, a failing    *)
(* call, a text equal to the value, missing metadata, a shorter list,      *)
(* another line count (a count at or above the cap weighs two).            *)
(***************************************************************************)
EXTENDS Integers, Sequences, FiniteSets, TLC

\* ------------------------------------------------------------- bounds
MaxFields == 2
MaxDeviations == 2

\* ------------------------------------------------- program constants
MAX_SUBLIST_LINES == 1000

\* ---------------------------------------------------------- JS values
Undefined == [js |-> "undefined"]
Null == [js |-> "null"]
EmptyObject == <<>>

\* obj[k] = v on a JS object used as a map
Put(obj, k, v) == [x \in (DOMAIN obj) \cup {k} |-> IF x = k THEN v ELSE obj[x]]

\* a || b on strings: the empty string is falsy
OrElse(a, b) == IF a = "" THEN b ELSE a

Range(s) == {s[k] : k \in DOMAIN s}

Min(a, b) == IF a < b THEN a ELSE b

\* ------------------------------------------------------------- inputs
RecordTypes == {"", "customer"}
RecordIds == {"", "123"}

FieldPool == <<"entityid", "email", "phone">>
SublistPool == <<"item", "addressbook">>
NominalColumns == <<"item", "quantity">>
NominalLineCount == 2

Absent == [given |-> FALSE]
AllowList(ids) == [given |-> TRUE, ids |-> ids]

OptionChoices ==
    [includeFields : {Absent, AllowList({"email"})},
     includeSublists : {Absent, AllowList({"addressbook"})}]

\* what the arguments of a call weigh against MaxDeviations
InputCost(type, id, opts) ==
    (IF type = "" THEN 1 ELSE 0) + (IF id = "" THEN 1 ELSE 0)
    + (IF opts.includeFields.given THEN 1 ELSE 0)
    + (IF opts.includeSublists.given THEN 1 ELSE 0)

\* the lists the host may enumerate: the nominal one is the longest
FieldLists == {SubSeq(FieldPool, 1, n) : n \in 0..MaxFields}
SublistLists == {SubSeq(SublistPool, 1, n) : n \in 0..Len(SublistPool)}
FieldListCost(l) == IF Len(l) = MaxFields THEN 0 ELSE 1
SublistListCost(l) == IF Len(l) = Len(SublistPool) THEN 0 ELSE 1

VARIABLES
    recordType, recordId, options,  \* the arguments
    pc,                             \* position in getFullRecordData
    i,                              \* loop index (1-based) of the running loop
    bodyFields, sublists,           \* the lists the host enumerated
    recordData,                     \* the document under construction
    exc,                            \* the exception on its way to the catch
    result,                         \* what the call returned
    marks,                          \* PerformanceTracker marks, in order
    calls,                          \* log of the host calls made
    host,                           \* the answers the host has given
    spent,                          \* deviations from the nominal host so far
    call,                           \* 1 or 2: which call of the caller runs
    first,                          \* the caller's first call, once a second began
    recordId2,                      \* compareRecords' third argument
    comparison,                     \* what compareRecords returned
    copy,                           \* the copy of getFullRecordData that runs
    request,                        \* the Suitelet's request, if there is one
    route,                          \* the branch of onRequest that runs
    scriptUrl,                      \* onRequest's scriptUrl
    response,                       \* what was written to context.response
    context,                        \* the user event's context, if there is one
    answers,                        \* what the host answers during the event
    logged,                         \* the entries written to N/log
    thrown,                         \* the host calls of the event that threw
    executionInfo,                  \* what logExecutionContext returned
    returned                        \* how the entry point went back to the host

vars == <<recordType, recordId, options, pc, i, bodyFields, sublists,
          recordData, exc, result, marks, calls, host, spent,
          call, first, recordId2, comparison, copy,
          request, route, scriptUrl, response,
          context, answers, logged, thrown, executionInfo, returned>>

\* the caller's own state, which getFullRecordData never touches
caller == <<call, first, recordId2, comparison, copy,
            request, route, scriptUrl, response,
            context, answers, logged, thrown, executionInfo, returned>>

NoData == [js |-> "uninitialised"]
NoException == [js |-> "none"]
NoResult == [pending |-> TRUE]
NoRequest == [none |-> TRUE]
NoResponse == [written |-> FALSE]

\* ------------------------------------------------------- host answers
Ok(v) == [ok |-> TRUE, val |-> v]
Throw(e) == [ok |-> FALSE, err |-> e]

HostMessage(op) ==
    CASE op = "load" -> "That record does not exist."
      [] op = "getCurrentUser" -> "getCurrentUser failed"
      [] op = "getFields" -> "getFields failed"
      [] op = "getValue" -> "getValue failed"
      [] op = "getText" -> "getText failed"
      [] op = "getField" -> "getField failed"
      [] op = "getSublists" -> "getSublists failed"
      [] op = "getLineCount" -> "getLineCount failed"
      [] op = "getSublistFields" -> "getSublistFields failed"
      [] op = "getSublistValue" -> "getSublistValue failed"
      [] op = "getSublistText" -> "getSublistText failed"
      [] op = "getSublistField" -> "getSublistField failed"
      [] op = "resolveScript" -> "resolveScript failed"
      [] op = "getCurrentScript" -> "getCurrentScript failed"
      [] op = "roleSearch" -> "search failed"
      [] op = "addButton" -> "addButton failed"
      [] op = "getRemainingUsage" -> "getRemainingUsage failed"

\* a SuiteScript error: a name, a message and a stack given as an array
HostError(op) ==
    [name |-> "SSS_HOST_ERROR", message |-> HostMessage(op),
     stack |-> [kind |-> "array", items |-> <<op, "stack frame">>]]

\* How the error thrown by record.load carries its stack: a SuiteScript error
\* as an array of frames, a JavaScript Error as one string, or not at all.
StackKinds == {"array", "string", "none"}

LoadError(kind) ==
    [name |-> "SSS_HOST_ERROR", message |-> HostMessage("load"),
     stack |-> CASE kind = "string" ->
                      [kind |-> "string", lines |-> <<"load", "stack frame">>]
                 [] kind = "none" -> Undefined
                 [] OTHER -> HostError("load").stack]

HostOps == {"load", "getCurrentUser", "getFields", "getValue", "getText",
            "getField", "getSublists", "getLineCount", "getSublistFields",
            "getSublistValue", "getSublistText", "getSublistField"}

HostLabel(id) ==
    CASE id = "entityid" -> "Entity ID"
      [] id = "email" -> "Email"
      [] id = "phone" -> "Phone"
      [] id = "item" -> "Item"
      [] id = "quantity" -> "Quantity"
      [] OTHER -> "Label"

UserId == "7"
Now == "2026-01-01T00:00:00.000Z"

\* -------------------------------------------- the host's body fields
\* How the host answers the three accessors of one body field. A call that
\* the code never reaches is "uncalled".
\* The form of the value getValue returns: "plain" is a string, number or
\* boolean, "null" an empty field, "object" a Date or an array, which every
\* load builds anew; "other" is a plain value that differs from the one the
\* first record of a comparison holds.
ValueForms ==
    IF call = 2 THEN {"plain", "null", "object", "other"}
    ELSE {"plain", "null", "object"}

FieldBehaviours ==
    { [value |-> "fail", text |-> "uncalled", meta |-> "uncalled", form |-> "plain"],
      [value |-> "ok", text |-> "fail", meta |-> "uncalled", form |-> "plain"] }
    \cup { [value |-> "ok", text |-> t, meta |-> m, form |-> "plain"] :
             t \in {"differs", "same"}, m \in {"ok", "fail", "null", "nolabel"} }
    \cup { [value |-> "ok", text |-> "differs", meta |-> "ok", form |-> f] :
             f \in ValueForms \ {"plain"} }

FieldCost(b) ==
    (IF b.value = "fail" THEN 1 ELSE 0)
    + (IF b.text \in {"fail", "same"} THEN 1 ELSE 0)
    + (IF b.meta \in {"fail", "null", "nolabel"} THEN 1 ELSE 0)
    + (IF b.form # "plain" THEN 1 ELSE 0)

FieldValue(fieldId) == [of |-> "value", field |-> fieldId]
FieldText(fieldId) == [of |-> "text", field |-> fieldId]

\* a host whose values change with every load
HostFieldValuePerLoad(fieldId, b) ==
    [of |-> "value", field |-> fieldId, load |-> call]

\* the value the host holds for a field; an object is the one built by this load
HostFieldValue(fieldId, b) ==
    CASE b.form = "null" -> Null
      [] b.form = "object" -> [of |-> "object", field |-> fieldId, ref |-> call]
      [] b.form = "other" -> [of |-> "value", field |-> fieldId, other |-> TRUE]
      [] OTHER -> FieldValue(fieldId)

\* recordObj.getValue({fieldId})
GetValue(fieldId, b) ==
    IF b.value = "fail" THEN Throw(HostError("getValue"))
    ELSE Ok(HostFieldValue(fieldId, b))

\* recordObj.getText({fieldId})
GetText(fieldId, b) ==
    IF b.text = "fail" THEN Throw(HostError("getText"))
    ELSE IF b.text = "same" THEN Ok(HostFieldValue(fieldId, b))
    ELSE Ok(FieldText(fieldId))

\* recordObj.getField({fieldId})
GetField(fieldId, b) ==
    CASE b.meta = "fail" -> Throw(HostError("getField"))
      [] b.meta = "null" -> Ok(Null)
      [] b.meta = "nolabel" ->
            Ok([label |-> "", type |-> "", isMandatory |-> FALSE, isDisplay |-> FALSE])
      [] OTHER ->
            Ok([label |-> HostLabel(fieldId), type |-> "text",
                isMandatory |-> TRUE, isDisplay |-> TRUE])

\* the host calls one iteration of the field loop makes, in order
FieldCalls(fieldId, b) ==
    <<<<"getValue", fieldId>>>>
    \o (IF b.value = "ok" THEN <<<<"getText", fieldId>>>> ELSE <<>>)
    \o (IF b.value = "ok" /\ b.text # "fail" THEN <<<<"getField", fieldId>>>> ELSE <<>>)

\* a projection that always keeps the text
OmitNever(text, value) == text

\* text: fieldText !== fieldValue ? fieldText : undefined
OmitIfIdentical(text, value) == IF text # value THEN text ELSE Undefined

\* the catch of the per-field (and per-cell) try
ErrorEntry(id, e) == [label |-> id, error |-> e.message]

\* the inner try around getField: label, type and flags, with their defaults
FieldMeta(fieldId, b) ==
    LET rm == GetField(fieldId, b)
        dflt == [label |-> fieldId, type |-> "", isMandatory |-> FALSE, isDisplay |-> FALSE]
    IN IF ~rm.ok THEN dflt
       ELSE IF rm.val = Null THEN dflt
       ELSE [label |-> OrElse(rm.val.label, fieldId),
             type |-> OrElse(rm.val.type, ""),
             isMandatory |-> rm.val.isMandatory,
             isDisplay |-> rm.val.isDisplay]

\* the body of the per-field try: the entry stored in recordData.fields
FieldProjection(fieldId, b) ==
    LET rv == GetValue(fieldId, b)
        rt == GetText(fieldId, b)
        m == FieldMeta(fieldId, b)
    IN IF ~rv.ok THEN ErrorEntry(fieldId, rv.err)
       ELSE IF ~rt.ok THEN ErrorEntry(fieldId, rt.err)
       ELSE [label |-> m.label,
             type |-> m.type,
             value |-> rv.val,
             text |-> OmitIfIdentical(rt.val, rv.val),
             isMandatory |-> m.isMandatory,
             isDisplay |-> m.isDisplay]

\* a loop that ignores the allow-list
SkippedNever(allow, id) == FALSE

\* options.includeFields && !options.includeFields.includes(id)
Skipped(allow, id) == allow.given /\ id \notin allow.ids

\* ------------------------------------------------ PerformanceTracker
\* Times are Date.now() - startTime, in clock ticks. The tracker's marks are
\* kept in the order they were set, each with the elapsed time read for it.
MarkAt(name, t) == [name |-> name, elapsed |-> t]

Names(ms) == [k \in 1..Len(ms) |-> ms[k].name]

\* the elapsed time the tracker read last (0 at construction)
LastReading(ms) == IF ms = <<>> THEN 0 ELSE ms[Len(ms)].elapsed

\* Date.now() does not go back: the next reading is the last one or later.
\* A tick of the clock between two readings costs one deviation.
Later(t, s) == IF s < MaxDeviations THEN {t, t + 1} ELSE {t}

\* mark(name): this.marks[name] = Date.now() - this.startTime
Mark(ms, name, t) == Append(ms, MarkAt(name, t))

\* a report whose total time is the time of construction
GetReportAtConstruction(ms, t) == [totalTime |-> 0, marks |-> ms]

\* getReport(): the total time read now, and the marks recorded so far
GetReport(ms, t) == [totalTime |-> t, marks |-> ms]

\* ---------------------------------------------------- the outer catch
ValidationException ==
    [name |-> "Error", message |-> "Record type and ID are required",
     stack |-> [kind |-> "string",
                lines |-> <<"Error: Record type and ID are required",
                            "    at getFullRecordData">>]]

\* String(e)
Rendered(e) == <<e.name, e.message>>

\* details that always hold the error rendered as a string
DetailsRendered(e) == <<Rendered(e)>>

\* e.stack ? (typeof e.stack === "string" ? e.stack.split("\n") : e.stack) : [String(e)]
Details(e) ==
    IF e.stack = Undefined THEN <<Rendered(e)>>
    ELSE IF e.stack.kind = "string" THEN e.stack.lines
    ELSE e.stack.items

ErrorResult(e, ms, t) ==
    [success |-> FALSE,
     error |-> [code |-> OrElse(e.name, "ERROR"),
                message |-> OrElse(e.message, "Unknown error"),
                details |-> Details(e)],
     performance |-> GetReport(ms, t)]

SuccessResult(data, ms, t) ==
    [success |-> TRUE, data |-> data, performance |-> GetReport(ms, t)]

\* a validation that forgets the record id
InvalidParametersTypeOnly(type, id) == type = ""

\* !recordType || !recordId
InvalidParameters(type, id) == type = "" \/ id = ""

\* ------------------------------------------------------------- Init
HostUnasked ==
    [load |-> "unasked", loadStack |-> "unasked", getCurrentUser |-> "unasked",
     getFields |-> "unasked", getSublists |-> "unasked",
     field |-> EmptyObject, sublist |-> EmptyObject]
NoEvent ==
    /\ context = [none |-> TRUE]
    /\ answers = [none |-> TRUE]
    /\ logged = <<>>
    /\ thrown = <<>>
    /\ executionInfo = Undefined
    /\ returned = "no event"

\* getFullRecordData or compareRecords called by a script, not by a request
Direct ==
    /\ request = NoRequest
    /\ route = "direct"
    /\ scriptUrl = ""
    /\ response = NoResponse
    /\ NoEvent

Init ==
    /\ recordType \in RecordTypes
    /\ recordId \in RecordIds
    /\ options \in OptionChoices
    /\ pc = "validate"
    /\ i = 1
    /\ bodyFields = <<>>
    /\ sublists = <<>>
    /\ recordData = NoData
    /\ exc = NoException
    /\ result = NoResult
    /\ marks = <<>>
    /\ calls = <<>>
    /\ host = HostUnasked
    /\ spent = InputCost(recordType, recordId, options)
    /\ spent <= MaxDeviations
    /\ call = 1
    /\ first = NoResult
    /\ recordId2 = recordId
    /\ comparison = NoResult
    /\ copy = "RecordDataService"
    /\ Direct

\* the second call reads the record the first call read
SameRecord == call = 2 /\ first.recordId = recordId

\* The three copies of getFullRecordData: the module, the one of the
\* monolithic Suitelet (part_003) and the one of SL_record_json_view.js.
Copies == {"RecordDataService", "part_003", "SL_record_json_view"}

\* SL_record_json_view.js goes from the try straight to record.load
Validates(c) == c # "SL_record_json_view"

\* An answer that deviates from the nominal host costs one deviation. An
\* unchanged record answers a second load as it answered the first.
Outcomes(op) ==
    IF SameRecord /\ op \in DOMAIN first.host /\ first.host[op] # "unasked"
    THEN {first.host[op]}
    ELSE IF spent < MaxDeviations THEN {"ok", "fail"} ELSE {"ok"}

\* no record has an empty type or an empty id: such a load always throws
LoadOutcomes ==
    IF InvalidParameters(recordType, recordId) THEN {"fail"} ELSE Outcomes("load")

LoadStacks ==
    IF SameRecord /\ first.host.loadStack # "unasked"
    THEN {first.host.loadStack} ELSE StackKinds
HostFieldLists == IF SameRecord THEN {first.bodyFields} ELSE FieldLists
HostSublistLists == IF SameRecord THEN {first.sublists} ELSE SublistLists
FieldAnswers(fieldId) ==
    IF SameRecord THEN {first.host.field[fieldId]} ELSE FieldBehaviours

\* ----------------------------------------------------------- actions
\* lines 29 and 192: a throw inside the try block transfers to the catch
\* the same throw as if the statement stood outside the try block
RaiseEscaping(e) == exc' = e /\ pc' = "thrown"

Raise(e) == exc' = e /\ pc' = "catch"

\* lines 30-33: validate the parameters, in the copies that do
Validate ==
    /\ pc = "validate"
    /\ IF Validates(copy) /\ InvalidParameters(recordType, recordId)
       THEN /\ Raise(ValidationException)
       ELSE /\ exc' = exc
            /\ pc' = "load"
    /\ UNCHANGED <<recordType, recordId, options, i, bodyFields, sublists,
                   recordData, result, marks, calls, host, spent>>
    /\ UNCHANGED caller

\* lines 35-42: record.load between the marks load_start and load_end
Load ==
    /\ pc = "load"
    /\ calls' = Append(calls, <<"load", recordType, recordId>>)
    /\ \E o \in LoadOutcomes, t1 \in Later(LastReading(marks), spent) :
        /\ IF o = "fail"
           THEN /\ \E k \in LoadStacks :
                    /\ host' = [host EXCEPT !.load = o, !.loadStack = k]
                    /\ Raise(LoadError(k))
                /\ marks' = Mark(marks, "load_start", t1)
                /\ spent' = spent + (t1 - LastReading(marks))
                                  + IF InvalidParameters(recordType, recordId)
                                    THEN 0 ELSE 1
           ELSE /\ host' = [host EXCEPT !.load = o]
                /\ \E t2 \in Later(t1, spent + (t1 - LastReading(marks))) :
                      /\ marks' = Mark(Mark(marks, "load_start", t1), "load_end", t2)
                      /\ spent' = spent + (t2 - LastReading(marks))
                /\ exc' = exc
                /\ pc' = "recordData"
    /\ UNCHANGED <<recordType, recordId, options, i, bodyFields, sublists,
                   recordData, result>>
    /\ UNCHANGED caller

\* lines 44-54: the empty document, stamped with the current user
NewRecordData ==
    /\ pc = "recordData"
    /\ calls' = Append(calls, <<"getCurrentUser">>)
    /\ \E o \in Outcomes("getCurrentUser") :
        /\ host' = [host EXCEPT !.getCurrentUser = o]
        /\ IF o = "fail"
           THEN /\ Raise(HostError("getCurrentUser"))
                /\ spent' = spent + 1
                /\ recordData' = recordData
           ELSE /\ exc' = exc
                /\ pc' = "getFields"
                /\ spent' = spent
                /\ recordData' =
                      [type |-> recordType, id |-> recordId, isDynamic |-> FALSE,
                       metadata |-> [loadedAt |-> Now, loadedBy |-> UserId],
                       fields |-> EmptyObject, sublists |-> EmptyObject]
    /\ UNCHANGED <<recordType, recordId, options, i, bodyFields, sublists,
                   result, marks>>
    /\ UNCHANGED caller

\* lines 56-58: enumerate the body fields
GetFields ==
    /\ pc = "getFields"
    /\ calls' = Append(calls, <<"getFields">>)
    /\ \E o \in Outcomes("getFields"), t \in Later(LastReading(marks), spent) :
        /\ marks' = Mark(marks, "fields_start", t)
        /\ host' = [host EXCEPT !.getFields = o]
        /\ IF o = "fail"
           THEN /\ Raise(HostError("getFields"))
                /\ spent' = spent + (t - LastReading(marks)) + 1
                /\ bodyFields' = bodyFields
           ELSE /\ exc' = exc
                /\ pc' = "fields"
                /\ bodyFields' \in HostFieldLists
                /\ spent' = spent + (t - LastReading(marks))
                                  + FieldListCost(bodyFields')
                /\ spent' <= MaxDeviations
    /\ i' = 1
    /\ UNCHANGED <<recordType, recordId, options, sublists, recordData, result>>
    /\ UNCHANGED caller

\* lines 60-104: one iteration of the field loop
ProjectField ==
    /\ pc = "fields"
    /\ i <= Len(bodyFields)
    /\ LET fieldId == bodyFields[i] IN
        IF Skipped(options.includeFields, fieldId)
        THEN UNCHANGED <<recordData, calls, host, spent>>
        ELSE \E b \in FieldAnswers(fieldId) :
                /\ spent + FieldCost(b) <= MaxDeviations
                /\ host' = [host EXCEPT !.field = Put(@, fieldId, b)]
                /\ spent' = spent + FieldCost(b)
                /\ calls' = calls \o FieldCalls(fieldId, b)
                /\ recordData' =
                      [recordData EXCEPT
                          !.fields = Put(@, fieldId, FieldProjection(fieldId, b))]
    /\ i' = i + 1
    /\ UNCHANGED <<recordType, recordId, options, pc, bodyFields, sublists,
                   exc, result, marks>>
    /\ UNCHANGED caller

\* lines 192-206: the outer catch builds the failure result
Catch ==
    /\ pc = "catch"
    /\ \E t \in Later(LastReading(marks), spent) :
          /\ result' = ErrorResult(exc, marks, t)
          /\ spent' = spent + (t - LastReading(marks))
    /\ pc' = "done"
    /\ UNCHANGED <<recordType, recordId, options, i, bodyFields, sublists,
                   recordData, exc, marks, calls, host>>
    /\ UNCHANGED caller

\* ------------------------------------------------ the host's sublists
LineCounts == {-1, 0, NominalLineCount, MAX_SUBLIST_LINES, MAX_SUBLIST_LINES + 1}

\* a line loop without the cap
MaxLinesUncapped(lineCount) == lineCount

\* const maxLines = Math.min(lineCount, CONFIG.MAX_SUBLIST_LINES)
MaxLines(lineCount) == Min(lineCount, MAX_SUBLIST_LINES)

\* metadata that reports the displayed count as the line count
SublistMetadataDisplayedCount(lineCount) ==
    IF lineCount > MAX_SUBLIST_LINES
    THEN [lineCount |-> MAX_SUBLIST_LINES, truncated |-> TRUE,
          displayedLines |-> MAX_SUBLIST_LINES]
    ELSE [lineCount |-> lineCount]

\* metadata that always writes the truncated flag
SublistMetadataAlwaysFlagged(lineCount) ==
    IF lineCount > MAX_SUBLIST_LINES
    THEN [lineCount |-> lineCount, truncated |-> TRUE,
          displayedLines |-> MAX_SUBLIST_LINES]
    ELSE [lineCount |-> lineCount, truncated |-> FALSE]

\* lines 128-135: the metadata of a sublist
SublistMetadata(lineCount) ==
    IF lineCount > MAX_SUBLIST_LINES
    THEN [lineCount |-> lineCount, truncated |-> TRUE,
          displayedLines |-> MaxLines(lineCount)]
    ELSE [lineCount |-> lineCount]

\* How one cell can deviate from the nominal cell.
CellKinds == {"valueFail", "textFail", "textSame", "metaFail", "nolabel"}

\* the lines (0-based) on which a cell may deviate: the first and the last one read
ProbeLines(maxLines) == {k \in {0, maxLines - 1} : k >= 0}

CellDeviations(columns, maxLines) ==
    {[column |-> c, line |-> k, kind |-> d] :
        c \in Range(columns), k \in ProbeLines(maxLines), d \in CellKinds}

RECURSIVE SetsUpTo(_, _)
SetsUpTo(S, n) ==
    IF n = 0 THEN {{}}
    ELSE LET P == SetsUpTo(S, n - 1) IN P \cup {p \cup {x} : p \in P, x \in S}

\* at most one deviation per cell
BadCellSets(columns, maxLines, n) ==
    {B \in SetsUpTo(CellDeviations(columns, maxLines), n) :
        \A x, y \in B : (x.column = y.column /\ x.line = y.line) => x = y}

CellKind(bad, c, k) ==
    IF \E d \in bad : d.column = c /\ d.line = k
    THEN (CHOOSE d \in bad : d.column = c /\ d.line = k).kind
    ELSE "ok"

\* How the host answers for one sublist: getLineCount, getSublistFields and
\* the cells that deviate. A call the code never reaches is "uncalled".
SublistBehaviours(n) ==
    { [count |-> "fail", lineCount |-> 0, columns |-> "uncalled", bad |-> {}] }
    \cup { [count |-> "ok", lineCount |-> c, columns |-> "uncalled", bad |-> {}] :
             c \in {x \in LineCounts : x <= 0} }
    \cup { [count |-> "ok", lineCount |-> c, columns |-> cols, bad |-> {}] :
             c \in {x \in LineCounts : x > 0}, cols \in {"fail", "empty"} }
    \cup UNION { { [count |-> "ok", lineCount |-> c, columns |-> "nominal", bad |-> B] :
                     B \in BadCellSets(NominalColumns, MaxLines(c), n) } :
                 c \in {x \in LineCounts : x > 0} }

SublistCost(sb) ==
    (IF sb.count = "fail" THEN 1
     ELSE IF sb.lineCount = NominalLineCount THEN 0
     ELSE IF sb.lineCount >= MAX_SUBLIST_LINES THEN 2 ELSE 1)
    + (IF sb.columns \in {"fail", "empty"} THEN 1 ELSE 0)
    + Cardinality(sb.bad)

Columns(sb) == IF sb.columns = "nominal" THEN NominalColumns ELSE <<>>

CellValue(s, c, k) == [of |-> "value", sublist |-> s, column |-> c, line |-> k]
CellText(s, c, k) == [of |-> "text", sublist |-> s, column |-> c, line |-> k]

\* recordObj.getSublistValue({sublistId, fieldId, line})
GetSublistValue(s, c, k, kind) ==
    IF kind = "valueFail" THEN Throw(HostError("getSublistValue"))
    ELSE Ok(CellValue(s, c, k))

\* recordObj.getSublistText({sublistId, fieldId, line})
GetSublistText(s, c, k, kind) ==
    IF kind = "textFail" THEN Throw(HostError("getSublistText"))
    ELSE IF kind = "textSame" THEN Ok(CellValue(s, c, k))
    ELSE Ok(CellText(s, c, k))

\* recordObj.getSublistField({sublistId, fieldId, line})
GetSublistField(s, c, k, kind) ==
    IF kind = "metaFail" THEN Throw(HostError("getSublistField"))
    ELSE IF kind = "nolabel" THEN Ok([label |-> ""])
    ELSE Ok([label |-> HostLabel(c)])

\* the inner try around getSublistField
ColumnLabel(s, c, k, kind) ==
    LET rm == GetSublistField(s, c, k, kind)
    IN IF ~rm.ok THEN c ELSE OrElse(rm.val.label, c)

\* lines 144-179: the body of the per-cell try
CellProjection(s, c, k, kind) ==
    LET rv == GetSublistValue(s, c, k, kind)
        rt == GetSublistText(s, c, k, kind)
    IN IF ~rv.ok THEN ErrorEntry(c, rv.err)
       ELSE IF ~rt.ok THEN ErrorEntry(c, rt.err)
       ELSE [label |-> ColumnLabel(s, c, k, kind),
             value |-> rv.val,
             text |-> OmitIfIdentical(rt.val, rv.val)]

\* a line numbered by its 0-based index
LineProjectionZeroBased(s, k, columns, bad) ==
    [key \in {"_lineNumber"} \cup Range(columns) |->
        IF key = "_lineNumber" THEN k
        ELSE CellProjection(s, key, k, CellKind(bad, key, k))]

\* lines 138-182: one line, k 0-based
LineProjection(s, k, columns, bad) ==
    [key \in {"_lineNumber"} \cup Range(columns) |->
        IF key = "_lineNumber" THEN k + 1
        ELSE CellProjection(s, key, k, CellKind(bad, key, k))]

\* the loop of line 137
Lines(s, maxLines, columns, bad) ==
    [n \in 1..maxLines |-> LineProjection(s, n - 1, columns, bad)]

\* lines 122-183 for a sublist whose calls all return
SublistProjection(s, sb) ==
    [lines |-> Lines(s, MaxLines(sb.lineCount), Columns(sb), sb.bad),
     metadata |-> SublistMetadata(sb.lineCount)]

\* a sublist loop without the per-cell try: a failing cell read gets through
SublistThrowsOnCellFailure(sb) ==
    IF sb.count = "fail" THEN Throw(HostError("getLineCount"))
    ELSE IF sb.columns = "fail" THEN Throw(HostError("getSublistFields"))
    ELSE IF \E d \in sb.bad : d.kind = "valueFail"
         THEN Throw(HostError("getSublistValue"))
    ELSE IF \E d \in sb.bad : d.kind = "textFail"
         THEN Throw(HostError("getSublistText"))
    ELSE Ok(Null)

\* the exception one iteration of the sublist loop lets through, if any
SublistThrows(sb) ==
    IF sb.count = "fail" THEN Throw(HostError("getLineCount"))
    ELSE IF sb.columns = "fail" THEN Throw(HostError("getSublistFields"))
    ELSE Ok(Null)

\* recordData.sublists[s] as an aborted iteration leaves it
PartialSublist(sb) ==
    [lines |-> <<>>,
     metadata |-> IF sb.count = "fail" THEN EmptyObject
                  ELSE SublistMetadata(sb.lineCount)]

SublistCalls(s, sb) ==
    <<<<"getLineCount", s>>>>
    \o (IF sb.columns = "uncalled" THEN <<>>
        ELSE IF sb.columns = "fail" THEN <<<<"getSublistFields", s, 0>>>>
        ELSE <<<<"readLines", s, MaxLines(sb.lineCount)>>>>)

\* lines 105-109: close the field phase, enumerate the sublists
GetSublists ==
    /\ pc = "fields"
    /\ i > Len(bodyFields)
    /\ calls' = Append(calls, <<"getSublists">>)
    /\ \E o \in Outcomes("getSublists"), t1 \in Later(LastReading(marks), spent) :
      \E t2 \in Later(t1, spent + (t1 - LastReading(marks))) :
        /\ marks' = Mark(Mark(marks, "fields_end", t1), "sublists_start", t2)
        /\ host' = [host EXCEPT !.getSublists = o]
        /\ IF o = "fail"
           THEN /\ Raise(HostError("getSublists"))
                /\ spent' = spent + (t2 - LastReading(marks)) + 1
                /\ sublists' = sublists
           ELSE /\ exc' = exc
                /\ pc' = "sublists"
                /\ sublists' \in HostSublistLists
                /\ spent' = spent + (t2 - LastReading(marks))
                                  + SublistListCost(sublists')
                /\ spent' <= MaxDeviations
    /\ i' = 1
    /\ UNCHANGED <<recordType, recordId, options, bodyFields, recordData, result>>
    /\ UNCHANGED caller

SublistAnswers(sublistId) ==
    IF SameRecord THEN {first.host.sublist[sublistId]}
    ELSE SublistBehaviours(MaxDeviations - spent)

\* lines 111-184: one iteration of the sublist loop
ProjectSublist ==
    /\ pc = "sublists"
    /\ i <= Len(sublists)
    /\ LET sublistId == sublists[i] IN
        IF Skipped(options.includeSublists, sublistId)
        THEN /\ i' = i + 1
             /\ UNCHANGED <<recordData, calls, host, spent, exc, pc>>
        ELSE \E sb \in SublistAnswers(sublistId) :
                /\ spent + SublistCost(sb) <= MaxDeviations
                /\ host' = [host EXCEPT !.sublist = Put(@, sublistId, sb)]
                /\ spent' = spent + SublistCost(sb)
                /\ calls' = calls \o SublistCalls(sublistId, sb)
                /\ IF SublistThrows(sb).ok
                   THEN /\ recordData' =
                              [recordData EXCEPT
                                  !.sublists = Put(@, sublistId,
                                                   SublistProjection(sublistId, sb))]
                        /\ i' = i + 1
                        /\ UNCHANGED <<exc, pc>>
                   ELSE /\ recordData' =
                              [recordData EXCEPT
                                  !.sublists = Put(@, sublistId, PartialSublist(sb))]
                        /\ Raise(SublistThrows(sb).err)
                        /\ i' = i
    /\ UNCHANGED <<recordType, recordId, options, bodyFields, sublists,
                   result, marks>>
    /\ UNCHANGED caller

\* lines 185-191: the success result
Return ==
    /\ pc = "sublists"
    /\ i > Len(sublists)
    /\ \E t1 \in Later(LastReading(marks), spent) :
      \E t2 \in Later(t1, spent + (t1 - LastReading(marks))) :
          /\ marks' = Mark(marks, "sublists_end", t1)
          /\ result' = SuccessResult(recordData, marks', t2)
          /\ spent' = spent + (t2 - LastReading(marks))
    /\ pc' = "done"
    /\ UNCHANGED <<recordType, recordId, options, i, bodyFields, sublists,
                   recordData, exc, calls, host>>
    /\ UNCHANGED caller

Next ==
    \/ Validate
    \/ Load
    \/ NewRecordData
    \/ GetFields
    \/ ProjectField
    \/ GetSublists
    \/ ProjectSublist
    \/ Return
    \/ Catch

Spec == Init /\ [][Next]_vars

\* ------------------------------------------------ a caller's second call
\* what the caller keeps of its first call
FirstCall ==
    [recordId |-> recordId, result |-> result, host |-> host,
     bodyFields |-> bodyFields, sublists |-> sublists, calls |-> calls]

\* the caller calls getFullRecordData(recordType, id, options) once more
\* a tracker that outlives the call: the marks of the first call are kept
BeginKeepingMarks(id) ==
    /\ call = 1
    /\ pc = "done"
    /\ first' = FirstCall
    /\ call' = 2
    /\ recordId' = id
    /\ pc' = "validate"
    /\ i' = 1
    /\ bodyFields' = <<>>
    /\ sublists' = <<>>
    /\ recordData' = NoData
    /\ exc' = NoException
    /\ result' = NoResult
    /\ marks' = marks
    /\ calls' = <<>>
    /\ host' = HostUnasked
    /\ UNCHANGED <<recordType, options, recordId2, comparison,
                   request, route, scriptUrl, response,
                   context, answers, logged, thrown, executionInfo, returned>>

Begin(id) ==
    /\ call = 1
    /\ pc = "done"
    /\ first' = FirstCall
    /\ call' = 2
    /\ recordId' = id
    /\ pc' = "validate"
    /\ i' = 1
    /\ bodyFields' = <<>>
    /\ sublists' = <<>>
    /\ recordData' = NoData
    /\ exc' = NoException
    /\ result' = NoResult
    /\ marks' = <<>>
    /\ calls' = <<>>
    /\ host' = HostUnasked
    /\ UNCHANGED <<recordType, options, recordId2, comparison,
                   request, route, scriptUrl, response,
                   context, answers, logged, thrown, executionInfo, returned>>

\* the same call again: every deviation of the first call is met, and
\* counted, once more
CallAgain ==
    /\ Begin(recordId)
    /\ copy' = copy
    /\ 2 * spent <= MaxDeviations
    /\ spent' = spent + InputCost(recordType, recordId, options)

RepeatNext ==
    \/ Validate
    \/ Load
    \/ NewRecordData
    \/ GetFields
    \/ ProjectField
    \/ GetSublists
    \/ ProjectSublist
    \/ Return
    \/ Catch
    \/ CallAgain

RepeatSpec == Init /\ [][RepeatNext]_vars

\* the same call made to another copy, against the same record
CallCopy ==
    /\ Begin(recordId)
    /\ copy = "RecordDataService"
    /\ copy' \in Copies \ {copy}
    /\ 2 * spent <= MaxDeviations
    /\ spent' = spent + InputCost(recordType, recordId, options)

CopyNext ==
    \/ Validate
    \/ Load
    \/ NewRecordData
    \/ GetFields
    \/ ProjectField
    \/ GetSublists
    \/ ProjectSublist
    \/ Return
    \/ Catch
    \/ CallCopy

CopySpec == Init /\ [][CopyNext]_vars

\* ------------------------------------------------------ compareRecords
\* compareRecords(recordType, recordId1, recordId2): recordId holds the id of
\* the projection that runs, recordId2 the third argument.
CompareIds == RecordIds \cup {"456"}

\* compareRecords passes no options: getFullRecordData defaults them to {}
NoOptions == [includeFields |-> Absent, includeSublists |-> Absent]

\* what a second record weighs against MaxDeviations
OtherRecordCost(id1, id2) == IF id1 = id2 THEN 0 ELSE 1

CompareInit ==
    /\ recordType \in RecordTypes
    /\ recordId \in RecordIds
    /\ recordId2 \in CompareIds
    /\ options = NoOptions
    /\ pc = "validate"
    /\ i = 1
    /\ bodyFields = <<>>
    /\ sublists = <<>>
    /\ recordData = NoData
    /\ exc = NoException
    /\ result = NoResult
    /\ marks = <<>>
    /\ calls = <<>>
    /\ host = HostUnasked
    /\ spent = InputCost(recordType, recordId, options)
                  + OtherRecordCost(recordId, recordId2)
    /\ spent <= MaxDeviations
    /\ call = 1
    /\ first = NoResult
    /\ comparison = NoResult
    /\ copy = "RecordDataService"
    /\ Direct

\* lines 710-713: the projection of recordId2, begun when the first returned
SecondProjection ==
    /\ Begin(recordId2)
    /\ copy' = copy
    /\ IF recordId2 = recordId
       THEN /\ 2 * spent <= MaxDeviations
            /\ spent' = spent + InputCost(recordType, recordId2, options)
       ELSE spent' = spent

\* a comparison that reads the error of an error-shaped entry
ValueOrErrorOf(entry) ==
    IF "value" \in DOMAIN entry THEN entry.value ELSE [error |-> entry.error]

\* field.value of an entry; an error-shaped entry has none
ValueOf(entry) == IF "value" \in DOMAIN entry THEN entry.value ELSE Undefined

\* a comparison of the values by content, whichever load built them
ContentNotEqual(a, b) ==
    (IF "ref" \in DOMAIN a THEN [of |-> a.of, field |-> a.field] ELSE a)
        # (IF "ref" \in DOMAIN b THEN [of |-> b.of, field |-> b.field] ELSE b)

\* a !== b: no coercion; two objects are equal only when they are one object
StrictNotEqual(a, b) == a # b

\* !field1 || !field2 || field1.value !== field2.value
InFieldDiff(fields1, fields2, fieldId) ==
    \/ fieldId \notin DOMAIN fields1
    \/ fieldId \notin DOMAIN fields2
    \/ StrictNotEqual(ValueOf(fields1[fieldId]), ValueOf(fields2[fieldId]))

\* a missing side shown as an empty object
SideEmpty(fields, fieldId) ==
    IF fieldId \in DOMAIN fields THEN fields[fieldId] ELSE EmptyObject

\* field || { value: null }
Side(fields, fieldId) ==
    IF fieldId \in DOMAIN fields THEN fields[fieldId] ELSE [value |-> Null]

\* (field1 && field1.label) || (field2 && field2.label) || fieldId
DiffLabel(fields1, fields2, fieldId) ==
    LET label1 == IF fieldId \in DOMAIN fields1 THEN fields1[fieldId].label ELSE ""
        label2 == IF fieldId \in DOMAIN fields2 THEN fields2[fieldId].label ELSE ""
    IN OrElse(OrElse(label1, label2), fieldId)

\* lines 728-746: differences.fields
FieldDifferences(fields1, fields2) ==
    [fieldId \in {f \in DOMAIN fields1 \cup DOMAIN fields2 :
                      InFieldDiff(fields1, fields2, f)} |->
        [label |-> DiffLabel(fields1, fields2, fieldId),
         record1 |-> Side(fields1, fieldId),
         record2 |-> Side(fields2, fieldId),
         isDifferent |-> TRUE]]

\* a count taken from the metadata, not from the lines shown
LineCountFromMetadata(sublists0, sublistId) ==
    IF sublistId \in DOMAIN sublists0
    THEN sublists0[sublistId].metadata.lineCount ELSE 0

\* sublist ? sublist.lines.length : 0
LineCountOf(sublists0, sublistId) ==
    IF sublistId \in DOMAIN sublists0 THEN Len(sublists0[sublistId].lines) ELSE 0

\* lines 749-768: differences.sublists
SublistDifferences(sublists1, sublists2) ==
    [sublistId \in {sl \in DOMAIN sublists1 \cup DOMAIN sublists2 :
                        LineCountOf(sublists1, sl) # LineCountOf(sublists2, sl)} |->
        [record1LineCount |-> LineCountOf(sublists1, sublistId),
         record2LineCount |-> LineCountOf(sublists2, sublistId),
         isDifferent |-> TRUE]]

\* a failure that still carries a diff
FailedComparisonWithDiff(message) ==
    [success |-> FALSE, error |-> message,
     differences |-> [fields |-> EmptyObject, sublists |-> EmptyObject]]

\* lines 716-719: { success: false, error }
FailedComparison(message) == [success |-> FALSE, error |-> message]

\* lines 715-775: what compareRecords returns for the two results. Nothing in
\* the try block throws on two results of getFullRecordData, so the catch of
\* line 776 is never entered.
Comparison(record1, record2) ==
    IF ~record1.success \/ ~record2.success
    THEN FailedComparison("Failed to load one or both records")
    ELSE [success |-> TRUE,
          differences |->
              [fields |-> FieldDifferences(record1.data.fields, record2.data.fields),
               sublists |-> SublistDifferences(record1.data.sublists,
                                               record2.data.sublists)],
          record1 |-> record1.data,
          record2 |-> record2.data]

\* lines 715-775: compare the two results and return
ReturnComparison ==
    /\ call = 2
    /\ pc = "done"
    /\ comparison = NoResult
    /\ comparison' = Comparison(first.result, result)
    /\ pc' = "returned"
    /\ UNCHANGED <<recordType, recordId, options, i, bodyFields, sublists,
                   recordData, exc, result, marks, calls, host, spent,
                   call, first, recordId2, copy,
                   request, route, scriptUrl, response,
                   context, answers, logged, thrown, executionInfo, returned>>

CompareNext ==
    \/ Validate
    \/ Load
    \/ NewRecordData
    \/ GetFields
    \/ ProjectField
    \/ GetSublists
    \/ ProjectSublist
    \/ Return
    \/ Catch
    \/ SecondProjection
    \/ ReturnComparison

CompareSpec == CompareInit /\ [][CompareNext]_vars

\* ------------------------------------------------- the Suitelet's onRequest
\* context.request: the method and the parameters onRequest reads. A
\* parameter that is missing and one that is empty are both falsy: "".
Requests ==
    [method : {"GET", "POST"},
     recordtype : RecordTypes,
     recordid : RecordIds,
     compareid : {""} \cup CompareIds,
     format : {"", "json"},
     darkMode : {"", "true"}]

\* what a request weighs against MaxDeviations
RequestCost(r) ==
    InputCost(r.recordtype, r.recordid, NoOptions)
    + (IF r.method = "POST" THEN 1 ELSE 0)
    + (IF r.darkMode # "" THEN 1 ELSE 0)
    + (IF r.compareid \notin {"", r.recordid} THEN 1 ELSE 0)

RequestInit ==
    /\ request \in Requests
    /\ route = "received"
    /\ scriptUrl = ""
    /\ response = NoResponse
    /\ NoEvent
    /\ recordType = request.recordtype
    /\ recordId = request.recordid
    /\ recordId2 = request.compareid
    /\ options = NoOptions
    /\ pc = "idle"
    /\ i = 1
    /\ bodyFields = <<>>
    /\ sublists = <<>>
    /\ recordData = NoData
    /\ exc = NoException
    /\ result = NoResult
    /\ marks = <<>>
    /\ calls = <<>>
    /\ host = HostUnasked
    /\ spent = RequestCost(request)
    /\ spent <= MaxDeviations
    /\ call = 1
    /\ first = NoResult
    /\ comparison = NoResult
    /\ copy = "RecordDataService"

\* the content of a value: what a Date or an array holds, whichever object
\* holds it
ValueContent(v) ==
    IF "ref" \in DOMAIN v THEN [of |-> v.of, field |-> v.field] ELSE v

\* JSON.stringify of a field or cell entry: a key whose value is undefined is
\* left out, a Date or an array is written by its content
JsonEntry(e) ==
    IF "value" \notin DOMAIN e THEN e
    ELSE [k \in (IF "text" \in DOMAIN e /\ e.text = Undefined
                 THEN DOMAIN e \ {"text"} ELSE DOMAIN e) |->
             IF k = "value" THEN ValueContent(e.value) ELSE e[k]]

JsonLine(line) ==
    [c \in DOMAIN line |->
        IF c = "_lineNumber" THEN line[c] ELSE JsonEntry(line[c])]

JsonSublist(sl) ==
    [lines |-> [k \in 1..Len(sl.lines) |-> JsonLine(sl.lines[k])],
     metadata |-> sl.metadata]

JsonDocument(data) ==
    [data EXCEPT
        !.fields = [f \in DOMAIN data.fields |-> JsonEntry(data.fields[f])],
        !.sublists = [x \in DOMAIN data.sublists |-> JsonSublist(data.sublists[x])]]

JsonDifferences(diff) ==
    [fields |-> [f \in DOMAIN diff.fields |->
                    [diff.fields[f] EXCEPT !.record1 = JsonEntry(@),
                                           !.record2 = JsonEntry(@)]],
     sublists |-> diff.sublists]

\* JSON.stringify(result, null, 2) of a Result or of a comparison
Stringify(r) ==
    IF ~r.success THEN [json |-> r]
    ELSE IF "differences" \in DOMAIN r
    THEN [json |-> [success |-> TRUE,
                    differences |-> JsonDifferences(r.differences),
                    record1 |-> JsonDocument(r.record1),
                    record2 |-> JsonDocument(r.record2)]]
    ELSE [json |-> [r EXCEPT !.data = JsonDocument(r.data)]]

ApplicationJson == "application/json; charset=utf-8"
TextHtml == "text/html; charset=utf-8"

\* HTMLTemplateService.createHtmlPage(params): the page made from them
CreateHtmlPage(params) == [html |-> "page", params |-> params]

\* lines 104-117: the page the catch writes
ErrorPage(e) == [html |-> "error", message |-> e.message]

Written(contentType, body) ==
    [written |-> TRUE, contentType |-> contentType, body |-> body]

\* the response carries no Content-Type header unless one was set
NoHeader == ""

Truthy(str) == str # ""

\* lines 49-53, 68 and 87: the branch the parameters select
RouteOf(r) ==
    IF r.format = "json" /\ Truthy(r.recordtype) /\ Truthy(r.recordid)
    THEN "json"
    ELSE IF Truthy(r.recordtype) /\ Truthy(r.recordid) /\ Truthy(r.compareid)
    THEN "compare"
    ELSE IF Truthy(r.recordtype) /\ Truthy(r.recordid)
    THEN "page"
    ELSE "empty"

PageOf(r, res, link) ==
    CreateHtmlPage([recordType |-> r.recordtype, recordId |-> r.recordid,
                    result |-> res, scriptUrl |-> link,
                    compareId |-> r.compareid, darkMode |-> r.darkMode])

\* lines 35-46 and 85-117: the method, the parameters, url.resolveScript, and
\* the branch taken; a request without a record is answered at once
Receive ==
    /\ route = "received"
    /\ pc = "idle"
    /\ IF request.method # "GET"
       THEN /\ route' = "finished"
            /\ UNCHANGED <<pc, scriptUrl, response, spent>>
       ELSE \E o \in Outcomes("resolveScript") :
            IF o = "fail"
            THEN /\ route' = "finished"
                 /\ response' = Written(TextHtml, ErrorPage(HostError("resolveScript")))
                 /\ spent' = spent + 1
                 /\ UNCHANGED <<pc, scriptUrl>>
            ELSE /\ scriptUrl' = "/app/site/hosting/scriptlet.nl"
                 /\ spent' = spent
                 /\ IF RouteOf(request) = "empty"
                    THEN /\ route' = "finished"
                         /\ response' =
                               Written(NoHeader,
                                       PageOf(request,
                                              [success |-> TRUE, data |-> EmptyObject],
                                              scriptUrl'))
                         /\ pc' = pc
                    ELSE /\ route' = RouteOf(request)
                         /\ pc' = "validate"
                         /\ response' = response
    /\ UNCHANGED <<recordType, recordId, options, i, bodyFields, sublists,
                   recordData, exc, result, marks, calls, host,
                   call, first, recordId2, comparison, copy, request,
                   context, answers, logged, thrown, executionInfo, returned>>

\* lines 48-65: the raw Result as JSON
RespondJson ==
    /\ route = "json"
    /\ pc = "done"
    /\ response' = Written(ApplicationJson, Stringify(result))
    /\ route' = "finished"
    /\ UNCHANGED <<recordType, recordId, options, pc, i, bodyFields, sublists,
                   recordData, exc, result, marks, calls, host, spent,
                   call, first, recordId2, comparison, copy, request, scriptUrl,
                   context, answers, logged, thrown, executionInfo, returned>>

\* lines 69-73: compareRecords' second projection
CompareSecond ==
    /\ route = "compare"
    /\ SecondProjection

\* lines 74-83: the comparison as JSON
RespondComparison ==
    /\ route = "compare"
    /\ pc = "returned"
    /\ response' = Written(ApplicationJson, Stringify(comparison))
    /\ route' = "finished"
    /\ UNCHANGED <<recordType, recordId, options, pc, i, bodyFields, sublists,
                   recordData, exc, result, marks, calls, host, spent,
                   call, first, recordId2, comparison, copy, request, scriptUrl,
                   context, answers, logged, thrown, executionInfo, returned>>

\* lines 85-102: the page of a record
RespondPage ==
    /\ route = "page"
    /\ pc = "done"
    /\ response' = Written(NoHeader, PageOf(request, result, scriptUrl))
    /\ route' = "finished"
    /\ UNCHANGED <<recordType, recordId, options, pc, i, bodyFields, sublists,
                   recordData, exc, result, marks, calls, host, spent,
                   call, first, recordId2, comparison, copy, request, scriptUrl,
                   context, answers, logged, thrown, executionInfo, returned>>

RequestNext ==
    \/ Receive
    \/ Validate
    \/ Load
    \/ NewRecordData
    \/ GetFields
    \/ ProjectField
    \/ GetSublists
    \/ ProjectSublist
    \/ Return
    \/ Catch
    \/ CompareSecond
    \/ ReturnComparison
    \/ RespondJson
    \/ RespondComparison
    \/ RespondPage

RequestSpec == RequestInit /\ [][RequestNext]_vars

\* ------------------------------- compareRecords, both projections returned
\* The comparison of two records whose projections have both returned
\* success:true. A record is described by the answers its host gave: the
\* lists it enumerated and the behaviour of each field and sublist.
ComparedLineCounts ==
    {0, NominalLineCount, MAX_SUBLIST_LINES + 1, MAX_SUBLIST_LINES + 2}

ComparedFieldAnswers ==
    {b \in FieldBehaviours :
        /\ b.form \in {"plain", "null", "other"}
        /\ b.meta \in {"ok", "nolabel", "uncalled"}
        /\ b.text # "same"}

ComparedSublistAnswers ==
    {[count |-> "ok", lineCount |-> c,
      columns |-> IF c > 0 THEN "nominal" ELSE "uncalled", bad |-> {}] :
        c \in ComparedLineCounts}

\* a record with at most one body field and at most one sublist
ComparedRecords ==
    {[bodyFields |-> <<>>, field |-> EmptyObject] }
    \cup {[bodyFields |-> <<FieldPool[1]>>,
           field |-> Put(EmptyObject, FieldPool[1], b)] : b \in ComparedFieldAnswers}

ComparedSublists ==
    {[sublists |-> <<>>, sublist |-> EmptyObject] }
    \cup {[sublists |-> <<SublistPool[1]>>,
           sublist |-> Put(EmptyObject, SublistPool[1], sb)] :
             sb \in ComparedSublistAnswers}

\* the answers of a host all of whose record-level calls returned
HostOf(r, sl) ==
    [load |-> "ok", loadStack |-> "unasked", getCurrentUser |-> "ok",
     getFields |-> "ok", getSublists |-> "ok",
     field |-> r.field, sublist |-> sl.sublist]

\* lines 44-184: the document built from those answers
DocumentOf(type, id, r, sl) ==
    [type |-> type, id |-> id, isDynamic |-> FALSE,
     metadata |-> [loadedAt |-> Now, loadedBy |-> UserId],
     fields |-> [f \in Range(r.bodyFields) |-> FieldProjection(f, r.field[f])],
     sublists |-> [sb \in Range(sl.sublists) |->
                      SublistProjection(sb, sl.sublist[sb])]]

AllMarks ==
    <<"load_start", "load_end", "fields_start", "fields_end",
      "sublists_start", "sublists_end">>

\* the marks of a projection during which the clock did not tick
NominalMarks == [k \in 1..Len(AllMarks) |-> MarkAt(AllMarks[k], 0)]

\* the host calls of a projection of such a record, in order
CallsOf(type, id, r, sl) ==
    <<<<"load", type, id>>, <<"getCurrentUser">>, <<"getFields">>>>
    \o (IF r.bodyFields = <<>> THEN <<>>
        ELSE FieldCalls(r.bodyFields[1], r.field[r.bodyFields[1]]))
    \o <<<<"getSublists">>>>
    \o (IF sl.sublists = <<>> THEN <<>>
        ELSE SublistCalls(sl.sublists[1], sl.sublist[sl.sublists[1]]))

DiffInit ==
    /\ call = 2
    /\ recordType = "customer"
    /\ recordId = "456"
    /\ recordId2 = "456"
    /\ options = NoOptions
    /\ pc = "done"
    /\ exc = NoException
    /\ spent = 0
    /\ comparison = NoResult
    /\ copy = "RecordDataService"
    /\ Direct
    /\ \E r1 \in ComparedRecords, sl1 \in ComparedSublists :
          first = [recordId |-> "123",
                   result |-> SuccessResult(DocumentOf(recordType, "123", r1, sl1),
                                            NominalMarks, 0),
                   host |-> HostOf(r1, sl1),
                   bodyFields |-> r1.bodyFields, sublists |-> sl1.sublists,
                   calls |-> CallsOf(recordType, "123", r1, sl1)]
    /\ \E r2 \in ComparedRecords, sl2 \in ComparedSublists :
          /\ bodyFields = r2.bodyFields
          /\ sublists = sl2.sublists
          /\ i = Len(sublists) + 1
          /\ host = HostOf(r2, sl2)
          /\ recordData = DocumentOf(recordType, recordId, r2, sl2)
          /\ calls = CallsOf(recordType, recordId, r2, sl2)
    /\ marks = NominalMarks
    /\ result = SuccessResult(recordData, marks, 0)

DiffNext == ReturnComparison

DiffSpec == DiffInit /\ [][DiffNext]_vars

\* ------------------------------------------------ the user event script
\* context: the entry point the host calls, context.type, whether there is a
\* form and an old record, whether a mass update runs the script, and
\* newRecord.id, which is null ("": falsy) until a created record is saved
EventContexts ==
    {[event |-> "beforeLoad", type |-> t, form |-> f, oldRecord |-> FALSE,
      massUpdate |-> FALSE, id |-> IF t = "create" THEN "" ELSE "123"] :
        t \in {"create", "view", "edit"}, f \in BOOLEAN}
    \cup {[event |-> "beforeSubmit", type |-> t, form |-> FALSE,
           oldRecord |-> t # "create", massUpdate |-> FALSE,
           id |-> IF t = "create" THEN "" ELSE "123"] :
             t \in {"create", "edit", "xedit"}}
    \cup {[event |-> "afterSubmit", type |-> t, form |-> FALSE,
           oldRecord |-> t # "create", massUpdate |-> u, id |-> "123"] :
             t \in {"create", "edit", "xedit"}, u \in BOOLEAN}

\* an inline edit and a mass update are what an edit by hand is, to the
\* script: each weighs one deviation
ContextCost(ctx) ==
    (IF ctx.type = "xedit" THEN 1 ELSE 0) + (IF ctx.massUpdate THEN 1 ELSE 0)

\* the host calls that may throw, of those an event of this context makes
EventOps(ctx) ==
    (IF ctx.event = "beforeLoad" /\ ~ctx.form THEN {}
     ELSE {"getCurrentScript", "getCurrentUser", "roleSearch", "resolveScript",
           "getRemainingUsage"})
    \cup (IF ctx.form /\ ctx.id # "" /\ ctx.type \in {"view", "edit"}
          THEN {"resolveScript", "addButton"} ELSE {})
    \cup (IF ctx.oldRecord \/ ctx.form \/ ctx.event = "afterSubmit"
          THEN {"getFields"} ELSE {})
    \cup (IF ctx.id # "" /\ (ctx.form \/ ctx.event = "afterSubmit")
          THEN {"load", "getSublists"} ELSE {})

\* How the host answers the reads of one field of the old and the new record:
\* the old and the new value (a string, null, undefined, a Date, or a read
\* that throws: the same catch takes a throw of either read, so one stands
\* for both), getField (a field object, one without a label, or a throw) and
\* getText (a text or a throw).
ChangeBehaviours ==
    [old : {"a", "null", "object"},
     new : {"a", "b", "null", "undefined", "object", "fail"},
     meta : {"ok", "nolabel", "fail"},
     text : {"ok", "fail"}]

\* an unchanged or changed string with its label and text is nominal
ChangeCost(b) ==
    (IF b.old = "a" THEN 0 ELSE 1) + (IF b.new \in {"a", "b"} THEN 0 ELSE 1)
    + (IF b.meta = "ok" THEN 0 ELSE 1) + (IF b.text = "ok" THEN 0 ELSE 1)

RECURSIVE ChangeAnswers(_, _)
ChangeAnswers(n, budget) ==
    IF n = 0 THEN {<<>>}
    ELSE UNION {{<<b>> \o rest :
                    rest \in ChangeAnswers(n - 1, budget - ChangeCost(b))} :
                b \in {x \in ChangeBehaviours : ChangeCost(x) <= budget}}

\* the answers of the host during one event, within the budget; the fields
\* matter only when there is an old record to compare with
EventAnswers(ctx, budget) ==
    UNION {UNION {{[fails |-> F, fields |-> l, change |-> c] :
                      c \in ChangeAnswers(Len(l), budget - Cardinality(F))} :
                  l \in IF ctx.oldRecord THEN FieldLists ELSE {<<>>}} :
           F \in {X \in SUBSET EventOps(ctx) : Cardinality(X) <= budget}}

\* what the script has logged and which host calls threw, so far
Quiet == [log |-> <<>>, thrown |-> <<>>]

LogEntry(m, level, title, message) ==
    [m EXCEPT !.log = Append(@, [level |-> level, title |-> title,
                                 message |-> message])]

Threw(m, op) == [m EXCEPT !.thrown = Append(@, op)]

Fails(h, op, m) == [ok |-> FALSE, err |-> HostError(op), m |-> Threw(m, op)]

Returns(v, m) == [ok |-> TRUE, val |-> v, m |-> m]

\* lines 48-66: the viewer's URL, "#" when it cannot be resolved
GetRecordViewerUrl(h, m) ==
    IF "resolveScript" \in h.fails
    THEN Returns("#", LogEntry(Threw(m, "resolveScript"), "error",
                               "Error generating Record Viewer URL",
                               HostMessage("resolveScript")))
    ELSE Returns("/app/site/hosting/scriptlet.nl?recordtype=customer", m)

\* lines 146-170: the role's name, the role id when the search fails
GetUserRoleName(h, m) ==
    IF "roleSearch" \in h.fails
    THEN Returns("3", LogEntry(Threw(m, "roleSearch"), "error",
                               "Error getting role name",
                               HostMessage("roleSearch")))
    ELSE Returns("Administrator", m)

\* what getValue returns for a field of the old or of the new record
EventValue(fieldId, kind, side) ==
    CASE kind = "null" -> Null
      [] kind = "undefined" -> Undefined
      [] kind = "object" -> [of |-> "object", field |-> fieldId, ref |-> side]
      [] OTHER -> [of |-> "value", field |-> fieldId, v |-> kind]

Nullish(v) == v = Null \/ v = Undefined

\* a comparison that takes null and undefined for the same value
ValuesLooselyDifferent(oldValue, newValue) ==
    /\ ~(Nullish(oldValue) /\ Nullish(newValue))
    /\ oldValue # newValue

\* lines 189-194: valuesAreDifferent
ValuesAreDifferent(oldValue, newValue) ==
    \/ (oldValue = Null /\ newValue # Null)
    \/ (oldValue # Null /\ newValue = Null)
    \/ (oldValue # Undefined /\ newValue = Undefined)
    \/ (oldValue = Undefined /\ newValue # Undefined)
    \/ oldValue # newValue

EventLabel(fieldId) ==
    CASE fieldId = "entityid" -> "Name"
      [] fieldId = "email" -> "Email"
      [] OTHER -> "Phone"

\* lines 212-225: getText of a value that is there
EventText(fieldId, b, value) ==
    IF Nullish(value) \/ b.text = "fail" THEN Undefined
    ELSE [of |-> "text", field |-> fieldId, side |-> value]

\* lines 196-235: the entry of a changed field
ChangeEntry(fieldId, b, oldValue, newValue) ==
    [fieldId |-> fieldId,
     label |-> IF b.meta = "ok" THEN OrElse(EventLabel(fieldId), fieldId)
               ELSE fieldId,
     type |-> IF b.meta = "fail" THEN "" ELSE "text",
     oldValue |-> oldValue,
     newValue |-> newValue,
     oldText |-> OmitIfIdentical(EventText(fieldId, b, oldValue), oldValue),
     newText |-> OmitIfIdentical(EventText(fieldId, b, newValue), newValue)]

\* lines 183-242: the forEach over the fields of the new record, from the
\* k-th on
RECURSIVE ChangesFrom(_, _, _, _)
ChangesFrom(h, k, m, changedFields) ==
    IF k > Len(h.fields) THEN Returns(changedFields, m)
    ELSE LET fieldId == h.fields[k]
             b == h.change[k]
             oldValue == EventValue(fieldId, b.old, "old")
             newValue == EventValue(fieldId, b.new, "new")
             m1 == IF b.meta = "fail" THEN Threw(m, "getField") ELSE m
             m2 == IF b.text = "fail" /\ ~(Nullish(oldValue) /\ Nullish(newValue))
                   THEN Threw(m1, "getText") ELSE m1
         IN IF b.new = "fail"
            THEN ChangesFrom(h, k + 1,
                             LogEntry(Threw(m, "getValue"), "error",
                                      "Error comparing field values",
                                      HostMessage("getValue")),
                             changedFields)
            ELSE IF ~ValuesAreDifferent(oldValue, newValue)
            THEN ChangesFrom(h, k + 1, m, changedFields)
            ELSE ChangesFrom(h, k + 1, m2,
                             Append(changedFields,
                                    ChangeEntry(fieldId, b, oldValue, newValue)))

\* lines 179-247: getChangedFields(oldRecord, newRecord)
GetChangedFields(h, m) ==
    IF "getFields" \in h.fails THEN Fails(h, "getFields", m)
    ELSE ChangesFrom(h, 1, m, <<>>)

\* lines 74-139: logExecutionContext(context, eventType)
LogExecutionContext(ctx, h, m) ==
    IF "getCurrentScript" \in h.fails THEN Fails(h, "getCurrentScript", m)
    ELSE IF "getCurrentUser" \in h.fails THEN Fails(h, "getCurrentUser", m)
    ELSE LET role == GetUserRoleName(h, m)
             link == GetRecordViewerUrl(h, role.m)
             changes == IF ctx.event # "beforeLoad" /\ ctx.oldRecord
                        THEN GetChangedFields(h, link.m)
                        ELSE Returns(<<>>, link.m)
             info == IF ctx.event # "beforeLoad" /\ ctx.oldRecord
                     THEN [roleName |-> role.val, recordViewerUrl |-> link.val,
                           hasOldRecord |-> TRUE, changedFields |-> changes.val]
                     ELSE IF ctx.event # "beforeLoad"
                     THEN [roleName |-> role.val, recordViewerUrl |-> link.val,
                           hasOldRecord |-> FALSE]
                     ELSE [roleName |-> role.val, recordViewerUrl |-> link.val]
         IN IF ~changes.ok THEN changes
            ELSE LET m1 == LogEntry(changes.m, "audit", "USER EVENT", "")
                 IN IF "getRemainingUsage" \in h.fails
                    THEN Fails(h, "getRemainingUsage", m1)
                    ELSE Returns(info, LogEntry(m1, "debug", "Performance Stats", ""))

\* lines 256-273: addRecordViewerButton(form, recordType, recordId)
AddRecordViewerButton(ctx, h, m) ==
    IF ctx.form /\ ctx.id # ""
    THEN LET link == GetRecordViewerUrl(h, m)
         IN IF "addButton" \in h.fails
            THEN LogEntry(Threw(link.m, "addButton"), "error",
                          "Error adding Record Viewer button",
                          HostMessage("addButton"))
            ELSE link.m
    ELSE m

\* lines 281-325: trackRecordChanges(context, executionInfo)
TrackRecordChanges(ctx, info, m) ==
    IF ctx.type \notin {"create", "edit", "xedit"} THEN m
    ELSE IF ~ctx.oldRecord THEN m
    ELSE IF info.changedFields = <<>>
    THEN LogEntry(m, "debug", "No fields changed", "")
    ELSE LogEntry(LogEntry(m, "audit", "Record changes detected", ""),
                  "audit", "View complete record", "")

\* the first call of getFullRecordJson that throws, "" when none does: a
\* record without an id cannot be loaded
FullRecordJsonFailure(ctx, h) ==
    IF ctx.id = "" \/ "load" \in h.fails THEN "load"
    ELSE IF "getFields" \in h.fails THEN "getFields"
    ELSE IF "getSublists" \in h.fails THEN "getSublists"
    ELSE ""

\* lines 409-530: getFullRecordJson(recordType, recordId): the record's data,
\* or the error object of its catch
GetFullRecordJson(ctx, h, m) ==
    LET op == FullRecordJsonFailure(ctx, h)
    IN IF op # ""
       THEN Returns([error |-> TRUE, message |-> HostMessage(op)],
                    LogEntry(Threw(m, op), "error",
                             "Error getting full record JSON", HostMessage(op)))
       ELSE Returns([type |-> "customer", id |-> ctx.id,
                     fields |-> [f \in Range(h.fields) |-> [label |-> f]],
                     sublists |-> EmptyObject], m)

\* lines 336-366: the body of beforeLoad's try
BeforeLoadBody(ctx, h, m) ==
    LET m1 == IF ctx.type \in {"view", "edit"}
              THEN AddRecordViewerButton(ctx, h, m) ELSE m
        m2 == LogEntry(m1, "debug", "Form Information", "")
        json == GetFullRecordJson(ctx, h, m2)
        m3 == LogEntry(json.m, "debug", "ALL Field Information", "")
    IN IF ctx.form THEN LogExecutionContext(ctx, h, m3)
       ELSE Returns(Undefined, m1)

\* lines 384-393: the body of beforeSubmit's try
BeforeSubmitBody(ctx, h, m) ==
    LET info == LogExecutionContext(ctx, h, m)
    IN IF ~info.ok THEN info
       ELSE IF ctx.type \in {"edit", "xedit"}
       THEN Returns(info.val, TrackRecordChanges(ctx, info.val, info.m))
       ELSE info

\* lines 562-600: the inner try of afterSubmit: Object.keys of the sublists
\* of an error object throws, and the inner catch logs it
LogFullRecordJson(ctx, h, m) ==
    LET json == GetFullRecordJson(ctx, h, m)
        m1 == LogEntry(LogEntry(json.m, "audit", "FULL RECORD JSON", ""),
                       "audit", "RECORD FIELDS", "")
    IN IF "sublists" \notin DOMAIN json.val
       THEN LogEntry(m1, "error", "Error logging full record JSON",
                     "Cannot convert undefined or null to object")
       ELSE LogEntry(m1, "audit", "FULL RECORD JSON COMPLETE", "")

\* lines 539-601: the body of afterSubmit's try
AfterSubmitBody(ctx, h, m) ==
    LET info == LogExecutionContext(ctx, h, m)
        m1 == LogEntry(info.m, "audit", "Record Saved Successfully", "")
        m2 == IF ctx.massUpdate
              THEN LogEntry(m1, "audit", "Mass Update Detected", "") ELSE m1
    IN IF ~info.ok THEN info
       ELSE Returns(info.val, LogFullRecordJson(ctx, h, m2))

\* an entry point without its try and catch
Unguarded(r, title) ==
    IF r.ok
    THEN [log |-> r.m.log, thrown |-> r.m.thrown, info |-> r.val,
          returned |-> "normally"]
    ELSE [log |-> r.m.log, thrown |-> r.m.thrown, info |-> Undefined,
          returned |-> "exception"]

\* the try and catch of an entry point: what escapes the body is logged
Guarded(r, title) ==
    IF r.ok
    THEN [log |-> r.m.log, thrown |-> r.m.thrown, info |-> r.val,
          returned |-> "normally"]
    ELSE [log |-> LogEntry(r.m, "error", title, r.err.message).log,
          thrown |-> r.m.thrown, info |-> Undefined,
          returned |-> "normally"]

EventInit ==
    /\ context \in EventContexts
    /\ answers = [none |-> TRUE]
    /\ logged = <<>>
    /\ thrown = <<>>
    /\ executionInfo = Undefined
    /\ returned = "pending"
    /\ recordType = "customer"
    /\ recordId = context.id
    /\ recordId2 = recordId
    /\ options = NoOptions
    /\ pc = "idle"
    /\ i = 1
    /\ bodyFields = <<>>
    /\ sublists = <<>>
    /\ recordData = NoData
    /\ exc = NoException
    /\ result = NoResult
    /\ marks = <<>>
    /\ calls = <<>>
    /\ host = HostUnasked
    /\ spent = ContextCost(context)
    /\ call = 1
    /\ first = NoResult
    /\ comparison = NoResult
    /\ copy = "RecordDataService"
    /\ request = NoRequest
    /\ route = "direct"
    /\ scriptUrl = ""
    /\ response = NoResponse

\* what the user event script never touches
others ==
    <<recordType, recordId, options, pc, i, bodyFields, sublists, recordData,
      exc, result, marks, calls, host, spent, call, first, recordId2,
      comparison, copy, request, route, scriptUrl, response>>

\* the host takes back control with what the entry point left behind
Leave(h, out) ==
    /\ answers' = h
    /\ logged' = out.log
    /\ thrown' = out.thrown
    /\ executionInfo' = out.info
    /\ returned' = out.returned
    /\ UNCHANGED context
    /\ UNCHANGED others

\* lines 335-373
BeforeLoad ==
    /\ context.event = "beforeLoad"
    /\ returned = "pending"
    /\ \E h \in EventAnswers(context, MaxDeviations - spent) :
          Leave(h, Guarded(BeforeLoadBody(context, h, Quiet),
                           "Error in beforeLoad"))

\* lines 383-400
BeforeSubmit ==
    /\ context.event = "beforeSubmit"
    /\ returned = "pending"
    /\ \E h \in EventAnswers(context, MaxDeviations - spent) :
          Leave(h, Guarded(BeforeSubmitBody(context, h, Quiet),
                           "Error in beforeSubmit"))

\* lines 538-608
AfterSubmit ==
    /\ context.event = "afterSubmit"
    /\ returned = "pending"
    /\ \E h \in EventAnswers(context, MaxDeviations - spent) :
          Leave(h, Guarded(AfterSubmitBody(context, h, Quiet),
                           "Error in afterSubmit"))

EventNext ==
    \/ BeforeLoad
    \/ BeforeSubmit
    \/ AfterSubmit

EventSpec == EventInit /\ [][EventNext]_vars

\* ================================================================ claims
Succeeded == pc = "done" /\ result.success
Failed == pc = "done" /\ ~result.success

\* the document: the one returned, or the one under construction
Document == IF Succeeded THEN result.data ELSE recordData

\* the sublists whose iteration of the sublist loop has completed
Projected == IF pc = "sublists" \/ Succeeded THEN DOMAIN Document.sublists ELSE {}

\* the body fields whose iteration of the field loop has completed
ProjectedFields ==
    IF pc \in {"fields", "sublists"} \/ Succeeded THEN DOMAIN Document.fields
    ELSE {}

WellFormed(entry) ==
    DOMAIN entry = {"label", "type", "value", "text", "isMandatory", "isDisplay"}
ErrorShaped(entry) == DOMAIN entry = {"label", "error"}

CellOps == {"getSublistValue", "getSublistText", "getSublistField"}

\* the number of lines a sublist of lineCount lines shows
ExpectedLines(lineCount) ==
    IF lineCount > 1000 THEN 1000 ELSE IF lineCount < 0 THEN 0 ELSE lineCount

\* C1: field-level failure isolation. With no allow-list, once the record is
\* loaded and its N field ids are enumerated, the call returns success:true
\* with exactly one entry per listed id; the entry of a field whose getValue
\* failed is {label: fieldId, error: message}, and the entry of every other
\* field is well-formed and carries the value.
C1_FieldFailureIsolation ==
    ~options.includeFields.given =>
        /\ \A f \in ProjectedFields :
              IF host.field[f].value = "fail"
              THEN Document.fields[f] = [label |-> f, error |-> "getValue failed"]
              ELSE /\ WellFormed(Document.fields[f])
                   /\ Document.fields[f].value = HostFieldValue(f, host.field[f])
        /\ (pc = "done" /\ host.getFields = "ok") =>
              /\ result.success
              /\ DOMAIN result.data.fields = Range(bodyFields)
              /\ Cardinality(DOMAIN result.data.fields) = Len(bodyFields)

\* C2: getFullRecordData never throws. No exception leaves the call, and what
\* it returns is either {success:true, data, performance} with no error key or
\* {success:false, error:{code, message, details}, performance} with no data key.
C2_NeverThrows ==
    /\ pc # "thrown"
    /\ pc = "done" =>
          IF result.success
          THEN DOMAIN result = {"success", "data", "performance"}
          ELSE /\ DOMAIN result = {"success", "error", "performance"}
               /\ DOMAIN result.error = {"code", "message", "details"}

\* a failure in the last host call that can fail is returned, not thrown
C2_Witness ==
    /\ Failed
    /\ result.error.message = "getSublistFields failed"
    /\ Len(sublists) = 2 /\ i = 2

\* C3: the record load is the only host operation whose failure fails the
\* whole projection: whenever record.load succeeds, the call returns
\* success:true, whichever later host call fails.
C3_OnlyLoadFailsProjection ==
    (pc = "done" /\ host.load = "ok") => result.success

\* C4: for every field whose getValue succeeds, a failure of getText or of
\* getField does not produce an error-shaped entry: the entry keeps the value,
\* text is omitted when getText failed, label is the field id and type is ""
\* when the metadata read failed, and the two reads are independent (getField
\* is attempted whether or not getText failed).
C4_SecondaryReadsDegrade ==
    \A f \in ProjectedFields :
        host.field[f].value = "ok" =>
            /\ WellFormed(Document.fields[f])
            /\ Document.fields[f].value = HostFieldValue(f, host.field[f])
            /\ host.field[f].text = "fail" => Document.fields[f].text = Undefined
            /\ host.field[f].meta = "fail" =>
                  /\ Document.fields[f].label = f
                  /\ Document.fields[f].type = ""
            /\ host.field[f].meta # "uncalled"

\* C5: cell-level failure isolation. In every projected sublist every
\* displayed line is appended and has exactly one entry per enumerated column;
\* the entry of a cell whose read failed is {label: columnId, error: message}
\* and no other cell is error-shaped; the sublists enumerated before the
\* current one are all projected; and no failure of a cell accessor ever
\* reaches the outer catch.
C5_CellFailureIsolation ==
    /\ \A s \in Projected :
          LET sb == host.sublist[s]
              sl == Document.sublists[s]
          IN /\ Len(sl.lines) = ExpectedLines(sb.lineCount)
             /\ \A n \in 1..Len(sl.lines) :
                   /\ DOMAIN sl.lines[n] = {"_lineNumber"} \cup Range(Columns(sb))
                   /\ \A c \in Range(Columns(sb)) :
                         LET kind == CellKind(sb.bad, c, n - 1)
                             cell == sl.lines[n][c]
                         IN CASE kind = "valueFail" ->
                                   cell = [label |-> c, error |-> "getSublistValue failed"]
                              [] kind = "textFail" ->
                                   cell = [label |-> c, error |-> "getSublistText failed"]
                              [] OTHER ->
                                   /\ DOMAIN cell = {"label", "value", "text"}
                                   /\ cell.value = CellValue(s, c, n - 1)
    /\ pc = "sublists" =>
          DOMAIN recordData.sublists =
              {sublists[k] : k \in {j \in 1..(i - 1) :
                                      ~Skipped(options.includeSublists, sublists[j])}}
    /\ pc = "catch" => exc.message \notin {HostMessage(op) : op \in CellOps}
    /\ Failed => result.error.message \notin {HostMessage(op) : op \in CellOps}

\* a cell of the first sublist failed to read; its line keeps its other cell,
\* the next line and the next sublist are projected
C5_Witness ==
    /\ Succeeded
    /\ Len(sublists) = 2
    /\ {sublists[1], sublists[2]} \subseteq DOMAIN result.data.sublists
    /\ \E d \in host.sublist[sublists[1]].bad :
          /\ d.kind = "valueFail" /\ d.line = 0 /\ d.column = "item"
          /\ ErrorShaped(result.data.sublists[sublists[1]].lines[1]["item"])
          /\ ~ErrorShaped(result.data.sublists[sublists[1]].lines[1]["quantity"])
    /\ Len(result.data.sublists[sublists[1]].lines) = 2
    /\ Len(result.data.sublists[sublists[2]].lines) = 2

\* C6: validation fails fast. When recordType or recordId is empty the call
\* returns success:false and no host call is ever made.
C6_ValidationFailsFast ==
    (recordType = "" \/ recordId = "") =>
        /\ calls = <<>>
        /\ host = HostUnasked
        /\ pc = "done" => ~result.success

C6_Witness ==
    /\ Failed
    /\ recordType = "customer" /\ recordId = ""
    /\ calls = <<>>

\* C7: a precondition violation (empty recordType or recordId) is reported
\* with error code ValidationError, which tells it from a load failure.
C7_ValidationErrorCode ==
    (pc = "done" /\ (recordType = "" \/ recordId = "")) =>
        /\ ~result.success
        /\ result.error.code = "ValidationError"

\* C8: truncation invariant. For every projected sublist with a host line
\* count >= 0, lines.length is metadata.displayedLines (= MAX_SUBLIST_LINES)
\* when the count exceeds MAX_SUBLIST_LINES and metadata.lineCount otherwise,
\* and never exceeds MAX_SUBLIST_LINES.
C8_TruncationInvariant ==
    \A s \in Projected :
        LET sl == Document.sublists[s]
            lineCount == host.sublist[s].lineCount
        IN lineCount >= 0 =>
              /\ Len(sl.lines) <= 1000
              /\ IF lineCount > 1000
                 THEN /\ sl.metadata.displayedLines = 1000
                      /\ Len(sl.lines) = sl.metadata.displayedLines
                 ELSE Len(sl.lines) = sl.metadata.lineCount

\* a sublist one line over the cap is returned with exactly the cap
C8_Witness ==
    /\ Succeeded
    /\ \E s \in DOMAIN result.data.sublists :
          /\ host.sublist[s].lineCount = 1001
          /\ Len(result.data.sublists[s].lines) = 1000
          /\ result.data.sublists[s].lines[1000]["_lineNumber"] = 1000

\* C9: truncation metadata. For every projected sublist metadata.lineCount is
\* the count the host reported; displayedLines is present exactly when that
\* count exceeds MAX_SUBLIST_LINES and then equals MAX_SUBLIST_LINES; truncated
\* is true exactly when the count exceeds MAX_SUBLIST_LINES.
C9_TruncationMetadata ==
    \A s \in Projected :
        LET md == Document.sublists[s].metadata
            lineCount == host.sublist[s].lineCount
        IN /\ md.lineCount = lineCount
           /\ ("displayedLines" \in DOMAIN md) <=> (lineCount > 1000)
           /\ "displayedLines" \in DOMAIN md => md.displayedLines = 1000
           /\ ("truncated" \in DOMAIN md /\ md.truncated) <=> (lineCount > 1000)

\* a sublist of exactly the cap is returned whole and is not flagged
C9_Witness ==
    /\ Succeeded
    /\ \E s \in DOMAIN result.data.sublists :
          /\ host.sublist[s].lineCount = 1000
          /\ result.data.sublists[s].metadata = [lineCount |-> 1000]
          /\ Len(result.data.sublists[s].lines) = 1000

\* C10 as stated: the metadata of every projected sublist carries a boolean
\* truncated flag, false when lineCount <= MAX_SUBLIST_LINES.
C10_TruncatedAlwaysPresent ==
    \A s \in Projected :
        LET md == Document.sublists[s].metadata
        IN /\ "truncated" \in DOMAIN md
           /\ md.truncated \in BOOLEAN
           /\ host.sublist[s].lineCount <= 1000 => md.truncated = FALSE

\* C10 amended: the metadata of every projected sublist carries lineCount;
\* the truncated flag is present, with value true and together with
\* displayedLines, exactly when lineCount > MAX_SUBLIST_LINES, and is absent
\* (never false) otherwise.
C10_TruncatedOnlyWhenTruncating ==
    \A s \in Projected :
        LET md == Document.sublists[s].metadata
        IN IF host.sublist[s].lineCount > 1000
           THEN /\ DOMAIN md = {"lineCount", "truncated", "displayedLines"}
                /\ md.truncated = TRUE
           ELSE DOMAIN md = {"lineCount"}

\* one document with a truncated sublist, flagged, and a short one, unflagged
C10_Witness ==
    /\ Succeeded
    /\ \E s, t \in DOMAIN result.data.sublists :
          /\ host.sublist[s].lineCount > 1000
          /\ result.data.sublists[s].metadata.truncated = TRUE
          /\ host.sublist[t].lineCount = NominalLineCount
          /\ "truncated" \notin DOMAIN result.data.sublists[t].metadata

\* C11: line numbering. In every projected sublist, lines[k]._lineNumber is
\* k + 1 (k 0-based), every cell of lines[k] was read from host line k, the
\* lines are the host's lines 0 .. lines.length - 1 in order, and truncation
\* only drops a suffix.
C11_LineNumbering ==
    \A s \in Projected :
        LET sb == host.sublist[s]
            sl == Document.sublists[s]
        IN /\ Len(sl.lines) = ExpectedLines(sb.lineCount)
           /\ \A n \in 1..Len(sl.lines) :
                 /\ sl.lines[n]["_lineNumber"] = n
                 /\ \A c \in Range(Columns(sb)) :
                       LET cell == sl.lines[n][c]
                       IN IF "value" \in DOMAIN cell
                          THEN /\ cell.value = CellValue(s, c, n - 1)
                               /\ cell.text \in {Undefined, CellText(s, c, n - 1)}
                          ELSE CellKind(sb.bad, c, n - 1) \in {"valueFail", "textFail"}

\* the last line kept of a truncated sublist is host line 999, numbered 1000
C11_Witness ==
    /\ Succeeded
    /\ \E s \in DOMAIN result.data.sublists :
          /\ host.sublist[s].lineCount > 1000
          /\ result.data.sublists[s].lines[1]["_lineNumber"] = 1
          /\ result.data.sublists[s].lines[1000]["quantity"].value
                = CellValue(s, "quantity", 999)

\* C12: omit-if-identical. In every well-formed field entry and every
\* well-formed cell entry, text is undefined when the host's text equals the
\* host's value and is the host's text otherwise; fields and cells follow the
\* same rule.
C12_OmitIfIdentical ==
    /\ \A f \in ProjectedFields :
          WellFormed(Document.fields[f]) =>
              Document.fields[f].text =
                  IF host.field[f].text = "same" THEN Undefined ELSE FieldText(f)
    /\ \A s \in Projected :
          \A n \in 1..Len(Document.sublists[s].lines) :
              \A c \in Range(Columns(host.sublist[s])) :
                  LET cell == Document.sublists[s].lines[n][c]
                  IN "value" \in DOMAIN cell =>
                        cell.text =
                            IF CellKind(host.sublist[s].bad, c, n - 1) = "textSame"
                            THEN Undefined ELSE CellText(s, c, n - 1)

\* one document with a field and a cell whose text equals the value
C12_Witness ==
    /\ Succeeded
    /\ \E f \in DOMAIN result.data.fields :
          /\ host.field[f].text = "same"
          /\ result.data.fields[f].text = Undefined
    /\ \E s \in DOMAIN result.data.sublists :
          /\ \E d \in host.sublist[s].bad : d.kind = "textSame" /\ d.line = 1
          /\ \E c \in {"item", "quantity"} :
                /\ result.data.sublists[s].lines[2][c].text = Undefined
                /\ result.data.sublists[s].lines[1][c].text = CellText(s, c, 0)

FieldOps == {"getValue", "getText", "getField"}
SublistOps == {"getLineCount", "getSublistFields", "readLines"}

\* the ids an allow-list lets through
Allowed(allow, ids) == IF allow.given THEN ids \cap allow.ids ELSE ids

\* C13: allow-list filtering. The keys of data.fields are the listed field ids
\* that are in options.includeFields (all of them when it is not supplied); no
\* accessor is called for a skipped field and no entry is recorded for it;
\* options.includeSublists filters data.sublists the same way; neither
\* allow-list affects the other collection.
C13_AllowListFiltering ==
    /\ \A k \in 1..Len(calls) :
          /\ calls[k][1] \in FieldOps =>
                calls[k][2] \in Allowed(options.includeFields, Range(bodyFields))
          /\ calls[k][1] \in SublistOps =>
                calls[k][2] \in Allowed(options.includeSublists, Range(sublists))
    /\ pc = "fields" =>
          DOMAIN recordData.fields =
              Allowed(options.includeFields, {bodyFields[k] : k \in 1..(i - 1)})
    /\ pc = "sublists" =>
          /\ DOMAIN recordData.fields =
                Allowed(options.includeFields, Range(bodyFields))
          /\ DOMAIN recordData.sublists =
                Allowed(options.includeSublists, {sublists[k] : k \in 1..(i - 1)})
    /\ Succeeded =>
          /\ DOMAIN result.data.fields =
                Allowed(options.includeFields, Range(bodyFields))
          /\ DOMAIN result.data.sublists =
                Allowed(options.includeSublists, Range(sublists))

\* both allow-lists given: one field and one sublist skipped, one of each kept
C13_Witness ==
    /\ Succeeded
    /\ options.includeFields.given /\ options.includeSublists.given
    /\ Len(bodyFields) = 2 /\ Len(sublists) = 2
    /\ DOMAIN result.data.fields = {"email"}
    /\ DOMAIN result.data.sublists = {"addressbook"}
    /\ calls = <<<<"load", recordType, recordId>>, <<"getCurrentUser">>,
                 <<"getFields">>, <<"getValue", "email">>, <<"getText", "email">>,
                 <<"getField", "email">>, <<"getSublists">>,
                 <<"getLineCount", "addressbook">>,
                 <<"readLines", "addressbook", NominalLineCount>>>>

\* a value without the identity of the object that holds it

\* the entries of data.fields, compared by content
FieldsContent(fields) ==
    [f \in DOMAIN fields |->
        IF "value" \in DOMAIN fields[f]
        THEN [fields[f] EXCEPT !.value = ValueContent(@)]
        ELSE fields[f]]

Compared == pc = "returned"
Diffed == Compared /\ comparison.success
Doc1 == first.result.data
Doc2 == result.data

\* C15: comparator all-or-nothing. When the projection of recordId1 or of
\* recordId2 fails, compareRecords returns {success:false, error} with no
\* differences, record1 or record2 key; it returns success:true only when both
\* projections succeeded; and no exception leaves it.
C15_ComparatorAllOrNothing ==
    /\ pc # "thrown"
    /\ Compared =>
          IF first.result.success /\ result.success
          THEN comparison.success
          ELSE /\ DOMAIN comparison = {"success", "error"}
               /\ ~comparison.success

\* the first record is projected, the load of the second fails
C15_Witness ==
    /\ Compared
    /\ first.result.success
    /\ host.load = "fail"
    /\ comparison = [success |-> FALSE, error |-> "Failed to load one or both records"]

\* C16: field diff correctness. After a successful compareRecords, a field id
\* is a key of differences.fields if and only if it is a key of exactly one
\* document's fields, or it is a key of both and the two entries' value are
\* not strictly equal; label, text, type and flags play no part.
C16_FieldDiffCorrectness ==
    Diffed =>
        \A f \in DOMAIN Doc1.fields \cup DOMAIN Doc2.fields :
            f \in DOMAIN comparison.differences.fields
            <=> IF f \in DOMAIN Doc1.fields /\ f \in DOMAIN Doc2.fields
                THEN ValueOf(Doc1.fields[f]) # ValueOf(Doc2.fields[f])
                ELSE TRUE

\* two records: one field differs in value and is in the diff, another
\* differs in nothing and is not
C16_Witness ==
    /\ Diffed
    /\ \E f, g \in DOMAIN Doc1.fields \cap DOMAIN Doc2.fields :
          /\ WellFormed(Doc1.fields[f]) /\ WellFormed(Doc2.fields[f])
          /\ Doc1.fields[f].value # Doc2.fields[f].value
          /\ f \in DOMAIN comparison.differences.fields
          /\ Doc1.fields[g] = Doc2.fields[g]
          /\ g \notin DOMAIN comparison.differences.fields

\* a label that differs alone produces no entry
C16_LabelWitness ==
    /\ Diffed
    /\ \E f \in DOMAIN Doc1.fields \cap DOMAIN Doc2.fields :
          /\ Doc1.fields[f].label # Doc2.fields[f].label
          /\ f \notin DOMAIN comparison.differences.fields

\* C17: FieldDiff content. Every entry of differences.fields has isDifferent
\* true, record1 the first document's projection of the field and record2 the
\* second document's, a side that lacks the field being {value: null}; and a
\* field present in only one document is always in the diff.
C17_FieldDiffContent ==
    Diffed =>
        /\ \A f \in DOMAIN comparison.differences.fields :
              LET d == comparison.differences.fields[f]
              IN /\ d.isDifferent = TRUE
                 /\ d.record1 = IF f \in DOMAIN Doc1.fields THEN Doc1.fields[f]
                                ELSE [value |-> Null]
                 /\ d.record2 = IF f \in DOMAIN Doc2.fields THEN Doc2.fields[f]
                                ELSE [value |-> Null]
        /\ \A f \in DOMAIN Doc1.fields \cup DOMAIN Doc2.fields :
              (f \notin DOMAIN Doc1.fields \/ f \notin DOMAIN Doc2.fields)
                  => f \in DOMAIN comparison.differences.fields

\* a field that only one of the two records has
C17_Witness ==
    /\ Diffed
    /\ \E f \in DOMAIN comparison.differences.fields :
          /\ f \notin DOMAIN Doc1.fields \cap DOMAIN Doc2.fields
          /\ [value |-> Null] \in {comparison.differences.fields[f].record1,
                                   comparison.differences.fields[f].record2}

\* the number of lines a document shows for a sublist
ShownLines(doc, sl) ==
    IF sl \in DOMAIN doc.sublists THEN Len(doc.sublists[sl].lines) ELSE 0

\* C18: shallow sublist diff. After a successful compareRecords, a sublist id
\* is a key of differences.sublists if and only if the two documents'
\* lines.length differ, a document lacking the sublist counting as 0; the
\* entry holds the two lengths and isDifferent true; cell values play no part.
C18_ShallowSublistDiff ==
    Diffed =>
        \A sl \in DOMAIN Doc1.sublists \cup DOMAIN Doc2.sublists :
            IF ShownLines(Doc1, sl) # ShownLines(Doc2, sl)
            THEN /\ sl \in DOMAIN comparison.differences.sublists
                 /\ comparison.differences.sublists[sl] =
                       [record1LineCount |-> ShownLines(Doc1, sl),
                        record2LineCount |-> ShownLines(Doc2, sl),
                        isDifferent |-> TRUE]
            ELSE sl \notin DOMAIN comparison.differences.sublists

\* as many lines in both documents, with a cell that differs: no entry
C18_Witness ==
    /\ Diffed
    /\ \E sl \in DOMAIN Doc1.sublists \cap DOMAIN Doc2.sublists :
          /\ Len(Doc1.sublists[sl].lines) = Len(Doc2.sublists[sl].lines)
          /\ Doc1.sublists[sl].lines # Doc2.sublists[sl].lines
          /\ sl \notin DOMAIN comparison.differences.sublists

\* the two documents hold the same fields and sublists
SameContent ==
    /\ FieldsContent(Doc1.fields) = FieldsContent(Doc2.fields)
    /\ Doc1.sublists = Doc2.sublists

\* C19: diff sparsity on identical inputs. When the two projected documents
\* are identical in fields and sublists, as are two loads of one unchanged
\* record, differences is {fields: {}, sublists: {}}, whatever kind of value
\* the fields hold.
C19_DiffSparsity ==
    (Diffed /\ SameContent) =>
        /\ DOMAIN comparison.differences.fields = {}
        /\ DOMAIN comparison.differences.sublists = {}

\* C20: absence means equality. After a successful compareRecords, every
\* field or sublist id of either document that is not a key of the diff is in
\* both documents, with equal value or equal line count; and every key of the
\* diff is an entry that really differs between the two documents.
C20_AbsenceMeansEquality ==
    Diffed =>
        /\ \A f \in (DOMAIN Doc1.fields \cup DOMAIN Doc2.fields)
                        \ DOMAIN comparison.differences.fields :
              /\ f \in DOMAIN Doc1.fields /\ f \in DOMAIN Doc2.fields
              /\ ~ContentNotEqual(ValueOf(Doc1.fields[f]), ValueOf(Doc2.fields[f]))
        /\ \A sl \in (DOMAIN Doc1.sublists \cup DOMAIN Doc2.sublists)
                        \ DOMAIN comparison.differences.sublists :
              /\ sl \in DOMAIN Doc1.sublists /\ sl \in DOMAIN Doc2.sublists
              /\ ShownLines(Doc1, sl) = ShownLines(Doc2, sl)
        /\ \A f \in DOMAIN comparison.differences.fields :
              \/ f \notin DOMAIN Doc1.fields
              \/ f \notin DOMAIN Doc2.fields
              \/ ContentNotEqual(ValueOf(Doc1.fields[f]), ValueOf(Doc2.fields[f]))
        /\ \A sl \in DOMAIN comparison.differences.sublists :
              ShownLines(Doc1, sl) # ShownLines(Doc2, sl)

\* the load of the record failed and the call has returned
LoadFailed == Failed /\ host.load = "fail"

\* the rest of C21: the message, no accessor call, the trace returned
LoadFailureResult ==
    /\ result.error.message = "That record does not exist."
    /\ calls = <<<<"load", recordType, recordId>>>>
    /\ recordData = NoData
    /\ Names(result.performance.marks) = <<"load_start">>

\* C21 as stated: after a failed load, error.details is the stack split into
\* lines when the stack is a string and otherwise a one-element list holding
\* the error rendered as a string.
C21_LoadFailureResult ==
    LoadFailed =>
        /\ LoadFailureResult
        /\ result.error.details =
              IF host.loadStack = "string" THEN LoadError("string").stack.lines
              ELSE <<Rendered(LoadError(host.loadStack))>>

\* C21 amended: error.details is the stack split into lines when the stack is
\* a string, the stack itself when the host gives it as an array of frames,
\* and a one-element list holding the rendered error only when there is no
\* stack; the message is the host's, no field or sublist accessor is called
\* and the performance trace is returned.
C21_LoadFailureDetails ==
    LoadFailed =>
        /\ LoadFailureResult
        /\ result.error.details =
              CASE host.loadStack = "string" -> LoadError("string").stack.lines
                [] host.loadStack = "array" -> LoadError("array").stack.items
                [] OTHER -> <<Rendered(LoadError("none"))>>

\* a SuiteScript error: the frames of its stack array are the details
C21_Witness ==
    /\ LoadFailed
    /\ host.loadStack = "array"
    /\ result.error.details = <<"load", "stack frame">>

\* what a record's host answered is what its projection shows: the states
\* DiffSpec starts from are states CompareSpec reaches
ProjectionFromAnswers ==
    Succeeded =>
        /\ result.data = DocumentOf(recordType, recordId,
                                    [bodyFields |-> bodyFields, field |-> host.field],
                                    [sublists |-> sublists, sublist |-> host.sublist])
        /\ Names(result.performance.marks) = AllMarks

\* C28: a field that is error-shaped in both documents is never in the diff,
\* whatever the two error messages; a field that is error-shaped in one
\* document and well-formed with a defined value in the other always is.
C28_ErrorShapedEntries ==
    Diffed =>
        \A f \in DOMAIN Doc1.fields \cap DOMAIN Doc2.fields :
            /\ (ErrorShaped(Doc1.fields[f]) /\ ErrorShaped(Doc2.fields[f]))
                  => f \notin DOMAIN comparison.differences.fields
            /\ \/ (ErrorShaped(Doc1.fields[f]) /\ WellFormed(Doc2.fields[f])
                      /\ Doc2.fields[f].value # Undefined)
               \/ (WellFormed(Doc1.fields[f]) /\ ErrorShaped(Doc2.fields[f])
                      /\ Doc1.fields[f].value # Undefined)
               => f \in DOMAIN comparison.differences.fields

\* getValue failed on one record, getText on the other: no entry in the diff
C28_Witness ==
    /\ Diffed
    /\ \E f \in DOMAIN Doc1.fields \cap DOMAIN Doc2.fields :
          /\ Doc1.fields[f] = [label |-> f, error |-> "getValue failed"]
          /\ Doc2.fields[f] = [label |-> f, error |-> "getText failed"]
          /\ f \notin DOMAIN comparison.differences.fields

\* C29: the sublist diff works on the lines shown. Every line count in a
\* SublistDiff is at most MAX_SUBLIST_LINES, and a sublist whose true line
\* count exceeds MAX_SUBLIST_LINES in both records is never in the diff.
C29_DiffOnDisplayedLines ==
    Diffed =>
        /\ \A sl \in DOMAIN comparison.differences.sublists :
              /\ comparison.differences.sublists[sl].record1LineCount
                    <= MAX_SUBLIST_LINES
              /\ comparison.differences.sublists[sl].record2LineCount
                    <= MAX_SUBLIST_LINES
        /\ \A sl \in DOMAIN first.host.sublist \cap DOMAIN host.sublist :
              (first.host.sublist[sl].lineCount > MAX_SUBLIST_LINES
               /\ host.sublist[sl].lineCount > MAX_SUBLIST_LINES)
                  => sl \notin DOMAIN comparison.differences.sublists

\* 1001 lines against 1002: both documents show 1000, no entry
C29_Witness ==
    /\ Diffed
    /\ \E sl \in DOMAIN Doc1.sublists \cap DOMAIN Doc2.sublists :
          /\ Doc1.sublists[sl].metadata.lineCount = MAX_SUBLIST_LINES + 1
          /\ Doc2.sublists[sl].metadata.lineCount = MAX_SUBLIST_LINES + 2
          /\ Len(Doc1.sublists[sl].lines) = Len(Doc2.sublists[sl].lines)
          /\ sl \notin DOMAIN comparison.differences.sublists

\* a Result without its timing, its values compared by content
ResultContent(r) ==
    IF r.success
    THEN [success |-> TRUE,
          data |-> [r.data EXCEPT !.fields = FieldsContent(@)]]
    ELSE [success |-> FALSE, error |-> r.error]

\* C30: the three copies of getFullRecordData are observationally equivalent.
\* Called with the arguments the module was called with, against the same
\* record, another copy makes the same host calls in the same order and
\* returns the same Result, timing aside, also for an empty recordType or
\* recordId.
C30_CopiesEquivalent ==
    (SameRecord /\ pc = "done") =>
        /\ calls = first.calls
        /\ ResultContent(result) = ResultContent(first.result)

\* the copy of the monolithic Suitelet does what the module does
C30_MonolithEquivalent ==
    (SameRecord /\ pc = "done" /\ copy = "part_003") =>
        /\ calls = first.calls
        /\ ResultContent(result) = ResultContent(first.result)

\* the host calls that read: record.load, runtime.getCurrentUser, and the
\* accessors of the loaded record
ReadCalls ==
    {"load", "getCurrentUser", "getFields", "getValue", "getText", "getField",
     "getSublists", "getLineCount", "getSublistFields", "readLines"}

OnlyReads(log) == \A k \in 1..Len(log) : log[k][1] \in ReadCalls

IsPrefix(a, b) == Len(a) <= Len(b) /\ a = SubSeq(b, 1, Len(a))

\* C25: getFullRecordData and compareRecords are read-only. Every host call
\* of both projections of a comparison is a read (load, enumerate, get
\* value/text/metadata, line count), on success and on every failure path,
\* and nothing survives from one invocation to the next: the second
\* invocation starts from an empty trace, an empty call log and no data, so
\* its marks are again a prefix of the six phase marks.
C25_ReadOnly ==
    /\ OnlyReads(calls)
    /\ IsPrefix(Names(marks), AllMarks)
    /\ call = 2 => OnlyReads(first.calls)
    /\ (call = 2 /\ pc = "validate") =>
          /\ calls = <<>> /\ marks = <<>> /\ recordData = NoData
          /\ bodyFields = <<>> /\ sublists = <<>> /\ exc = NoException
    /\ pc = "returned" => (OnlyReads(calls) /\ OnlyReads(first.calls))

\* a comparison of two projections, the first failed after its load and the
\* second started afresh
C25_Witness ==
    /\ pc = "returned"
    /\ ~first.result.success
    /\ Len(first.calls) = 1
    /\ result.success
    /\ Len(calls) > 4
    /\ Names(result.performance.marks) = AllMarks

\* the positions of the call log that hold a call of one of the operations
CallsAmong(ops) == {k \in 1..Len(calls) : calls[k][1] \in ops}

\* C24: phase ordering and timing marks. A successful projection has recorded
\* the six marks load_start, load_end, fields_start, fields_end,
\* sublists_start, sublists_end, in that order, with non-decreasing elapsed
\* values, each at most totalTime; every field accessor call comes after the
\* load has returned and before any sublist accessor call; and the marks
\* influence neither the host calls nor the data: a second projection of the
\* same record makes the calls the first made and returns the same data,
\* whatever the clock did in either.
C24_PhaseOrderingAndMarks ==
    /\ Succeeded =>
          LET report == result.performance IN
          /\ Names(report.marks) = AllMarks
          /\ \A k \in 1..(Len(report.marks) - 1) :
                report.marks[k].elapsed <= report.marks[k + 1].elapsed
          /\ \A k \in 1..Len(report.marks) :
                report.marks[k].elapsed <= report.totalTime
    /\ \A k \in CallsAmong(FieldOps) :
          /\ k > 1
          /\ calls[1][1] = "load"
          /\ host.load = "ok"
          /\ IsPrefix(<<"load_start", "load_end", "fields_start">>, Names(marks))
          /\ \A j \in CallsAmong(SublistOps \cup {"getSublists"}) : k < j
    /\ \A j \in CallsAmong(SublistOps) :
          IsPrefix(<<"load_start", "load_end", "fields_start", "fields_end",
                     "sublists_start">>, Names(marks))
    /\ (SameRecord /\ pc = "done") =>
          /\ calls = first.calls
          /\ result.success = first.result.success
          /\ result.success =>
                /\ FieldsContent(result.data.fields)
                      = FieldsContent(first.result.data.fields)
                /\ result.data.sublists = first.result.data.sublists

\* two successful projections of one record with field and sublist accessor
\* calls, during which the clock ticked at different moments
C24_Witness ==
    /\ SameRecord /\ pc = "done" /\ result.success
    /\ CallsAmong(FieldOps) # {}
    /\ CallsAmong(SublistOps) # {}
    /\ result.performance.marks # first.result.performance.marks
    /\ result.performance.marks[2].elapsed < result.performance.marks[6].elapsed
    /\ first.result.performance.marks[1].elapsed
          < first.result.performance.marks[2].elapsed

\* a GET request that onRequest has answered, url.resolveScript having worked
Answered ==
    /\ route = "finished"
    /\ request.method = "GET"
    /\ scriptUrl # ""

\* C22: raw JSON surface. The answer to a GET request carrying format=json is
\* the serialized Result of the projection of (recordtype, recordid), the
\* failure Result when one of them is missing or empty; no HTML page is
\* written for such a request.
C22_RawJsonSurface ==
    (Answered /\ request.format = "json") =>
        /\ response.written
        /\ response.contentType = ApplicationJson
        /\ result # NoResult
        /\ response.body = Stringify(result)
        /\ InvalidParameters(request.recordtype, request.recordid)
              => ~result.success

\* what the code does for format=json: the raw Result when both parameters
\* are there, the page of no record otherwise
C22_RawJsonWhenRecordGiven ==
    (Answered /\ request.format = "json") =>
        IF InvalidParameters(request.recordtype, request.recordid)
        THEN /\ calls = <<>>
             /\ response.body.html = "page"
             /\ response.body.params.result = [success |-> TRUE, data |-> EmptyObject]
        ELSE /\ response.contentType = ApplicationJson
             /\ response.body = Stringify(result)

\* C23: comparator path selection. A GET request with non-empty recordtype,
\* recordid and compareid is answered with the result of compareRecords on
\* them, whatever format and darkMode it carries; without compareid
\* compareRecords is never invoked.
C23_ComparatorPathSelection ==
    /\ (/\ Answered
        /\ Truthy(request.recordtype)
        /\ Truthy(request.recordid)
        /\ Truthy(request.compareid)) =>
            /\ comparison # NoResult
            /\ response = Written(ApplicationJson, Stringify(comparison))
    /\ ~Truthy(request.compareid) => (call = 1 /\ comparison = NoResult)

\* what the code does: format=json is tried first, and then the comparison
C23_ComparatorUnlessRawJson ==
    /\ (/\ Answered
        /\ Truthy(request.recordtype)
        /\ Truthy(request.recordid)
        /\ Truthy(request.compareid)) =>
            IF request.format = "json"
            THEN /\ call = 1
                 /\ comparison = NoResult
                 /\ response = Written(ApplicationJson, Stringify(result))
            ELSE /\ comparison # NoResult
                 /\ response = Written(ApplicationJson, Stringify(comparison))
    /\ ~Truthy(request.compareid) => (call = 1 /\ comparison = NoResult)

\* the user event compared an old and a new record
ComparedChanges ==
    /\ returned = "normally"
    /\ executionInfo # Undefined
    /\ "changedFields" \in DOMAIN executionInfo

\* the entries of the returned list for the k-th field of the new record
EntriesOf(k) ==
    {j \in 1..Len(executionInfo.changedFields) :
        executionInfo.changedFields[j].fieldId = answers.fields[k]}

\* C26: getChangedFields reports all field changes. For every field whose old
\* and new values were read and differ, the returned list holds exactly one
\* entry, with the field's id, its label (the id when the field has none),
\* the old and the new value; for a field whose old and new values are
\* strictly equal it holds none.
C26_FieldChangeTracking ==
    ComparedChanges =>
        \A k \in 1..Len(answers.fields) :
            LET b == answers.change[k]
                fieldId == answers.fields[k]
                oldValue == EventValue(fieldId, b.old, "old")
                newValue == EventValue(fieldId, b.new, "new")
            IN b.new # "fail" =>
                  IF oldValue = newValue
                  THEN EntriesOf(k) = {}
                  ELSE /\ Cardinality(EntriesOf(k)) = 1
                       /\ \A j \in EntriesOf(k) :
                             LET entry == executionInfo.changedFields[j] IN
                             /\ entry.label = IF b.meta = "ok"
                                              THEN EventLabel(fieldId)
                                              ELSE fieldId
                             /\ entry.oldValue = oldValue
                             /\ entry.newValue = newValue

\* an edit that changed one of two fields
C26_Witness ==
    /\ ComparedChanges
    /\ context.type = "edit"
    /\ Len(answers.fields) = 2
    /\ answers.change[1].old = "a" /\ answers.change[1].new = "a"
    /\ answers.change[2].old = "a" /\ answers.change[2].new = "b"
    /\ Len(executionInfo.changedFields) = 1
    /\ executionInfo.changedFields[1].label = EventLabel(answers.fields[2])

\* a host call that threw has an error entry in the log
FailureLogged(op) ==
    \E j \in 1..Len(logged) :
        logged[j].level = "error" /\ logged[j].message = HostMessage(op)

IgnoredReads == {"getField", "getText"}

====
